---- MODULE Spec2Model ----
(***************************************************************************)
(* Alias namespace and ranked search of the blink URL-shortcut extension.  *)
(* Strings are sequences of one-character strings so that trim(),          *)
(* toLowerCase(), includes() and the validators' patterns are computed     *)
(* character by character, as the JavaScript does.                         *)
(***************************************************************************)
EXTENDS Integers, Sequences, FiniteSets, TLC

VARIABLES
  shortcuts,     \* the IndexedDB 'shortcuts' object store: a function from the stored ids to records
  folders,       \* the IndexedDB 'folders' object store: the set of stored names
  last,          \* the most recent call: operation, arguments, outcome, return value
  searchResult,  \* the list returned by the most recent search call
  now,           \* the clock Date.now() and new Date() read
  loadedShortcuts,   \* useRecentShortcuts: the 'shortcuts' state, the list last loaded
  searchQuery,       \* app store search slice: the query text
  searchResults,     \* app store search slice: the displayed results
  timers,            \* the host's pending timeouts: records of id and the query to search
  debounceTimerRef,  \* useSearchData: the id of the last timeout set, or NullId
  resultsCache,      \* useSearchData: the cache object, its entries in insertion order
  inFlight,          \* the performSearch calls awaiting shortcutService.searchShortcuts
  burst,             \* the handleSearch calls since the last quiet window, and the
                     \* evaluations the timers have started since the last call
  appShortcuts,      \* app store shortcut slice: the in-memory list of shortcuts
  calls,             \* the asynchronous service calls in progress, each with the
                     \* await it is suspended at and its local variables
  recorded           \* per shortcut id, the access recordings that have completed

\* the state of the React hooks and of the app store's search slice
hookVars == <<loadedShortcuts, searchQuery, searchResults, timers, debounceTimerRef,
              resultsCache, inFlight, burst>>

\* the shortcut slice of the app store, and the service calls in progress
dataVars == <<appShortcuts, calls, recorded>>

vars == <<shortcuts, folders, last, searchResult, now, hookVars, dataVars>>

----------------------------------------------------------------------------
(* Bounds of the model *)

MaxShortcuts == 3      \* ids available to the shortcuts store
MaxAccess == 2         \* cap on accessCount
MaxTime == 1           \* last tick of the clock
MaxTimers == 2         \* cap on the timeouts pending at once
MaxBurst == 3          \* cap on the handleSearch calls of one burst
MaxInFlight == 2       \* cap on the searches awaiting the store at once
MaxTagList == 51       \* longest list of distinct tags given to validateTags
MaxCsvList == 21       \* longest list of tags given as one comma-separated string
MaxCalls == 2          \* cap on the service calls in progress at once

Ids == 1..MaxShortcuts
NullId == 0            \* "no record": the null a lookup resolves to

----------------------------------------------------------------------------
(* Characters and JavaScript string primitives *)

LowerLetters == {"a","b","c","d","e","f","g","h","i","j","k","l","m",
                 "n","o","p","q","r","s","t","u","v","w","x","y","z"}
UpperLetters == {"A","B","C","D","E","F","G","H","I","J","K","L","M",
                 "N","O","P","Q","R","S","T","U","V","W","X","Y","Z"}
Digits == {"0","1","2","3","4","5","6","7","8","9"}

UpperSeq == <<"A","B","C","D","E","F","G","H","I","J","K","L","M",
              "N","O","P","Q","R","S","T","U","V","W","X","Y","Z">>
LowerSeq == <<"a","b","c","d","e","f","g","h","i","j","k","l","m",
              "n","o","p","q","r","s","t","u","v","w","x","y","z">>

\* The characters the model uses, in UTF-16 code unit order
CodeOrder == <<" ", "!", ",", "-", ".", "/">>
             \o <<"0","1","2","3","4","5","6","7","8","9">> \o <<":">>
             \o UpperSeq \o <<"_">> \o LowerSeq

Chars == {CodeOrder[i] : i \in 1..Len(CodeOrder)}

\* charCodeAt, as the rank of the character among those the model uses
Code == [c \in Chars |-> CHOOSE i \in 1..Len(CodeOrder) : CodeOrder[i] = c]

toLowerChar == [c \in Chars |->
  IF c \in UpperLetters
    THEN LowerSeq[CHOOSE i \in 1..26 : UpperSeq[i] = c]
    ELSE c]

\* String.prototype.toLowerCase
toLowerCase(s) == [i \in 1..Len(s) |-> toLowerChar[s[i]]]

RECURSIVE trimStart(_)
trimStart(s) ==
  IF s # <<>> /\ Head(s) = " " THEN trimStart(Tail(s)) ELSE s

RECURSIVE trimEnd(_)
trimEnd(s) ==
  IF s # <<>> /\ s[Len(s)] = " " THEN trimEnd(SubSeq(s, 1, Len(s) - 1)) ELSE s

\* String.prototype.trim
trim(s) == trimEnd(trimStart(s))

\* String.prototype.includes
includes(s, q) ==
  \E i \in 0..(Len(s) - Len(q)) : SubSeq(s, i + 1, i + Len(q)) = q

\* a < b in the default (code unit) string order of JavaScript
RECURSIVE strLess(_, _)
strLess(a, b) ==
  IF b = <<>> THEN FALSE
  ELSE IF a = <<>> THEN TRUE
  ELSE IF Head(a) = Head(b) THEN strLess(Tail(a), Tail(b))
  ELSE Code[Head(a)] < Code[Head(b)]

\* /^[...]+$/.test(s) for a character class
matchesClass(s, class) == s # <<>> /\ \A i \in 1..Len(s) : s[i] \in class

\* arr.filter((t) => t.length > 0)
RECURSIVE dropEmpty(_)
dropEmpty(s) ==
  IF s = <<>> THEN <<>>
  ELSE IF Head(s) # <<>> THEN <<Head(s)>> \o dropEmpty(Tail(s))
  ELSE dropEmpty(Tail(s))

\* [...new Set(arr)]: first occurrences, in order
RECURSIVE dedupe(_)
dedupe(s) ==
  IF s = <<>> THEN <<>>
  ELSE LET rest == dedupe(SubSeq(s, 1, Len(s) - 1))
           x == s[Len(s)]
       IN IF \E i \in 1..Len(rest) : rest[i] = x THEN rest ELSE Append(rest, x)

\* Array.prototype.sort() with the default comparator (stable insertion)
RECURSIVE insertSorted(_, _)
insertSorted(sorted, x) ==
  IF sorted = <<>> THEN <<x>>
  ELSE IF strLess(x, Head(sorted)) THEN <<x>> \o sorted
  ELSE <<Head(sorted)>> \o insertSorted(Tail(sorted), x)

RECURSIVE sortStrings(_)
sortStrings(s) ==
  IF s = <<>> THEN <<>>
  ELSE insertSorted(sortStrings(SubSeq(s, 1, Len(s) - 1)), s[Len(s)])

----------------------------------------------------------------------------
(* validators.js *)

MaxUrlLen == 2048
MaxAliasLen == 50
MaxFolderLen == 30
MaxTagLen == 20
MaxTagCount == 20

AliasChars == LowerLetters \cup Digits \cup {"-"}
FolderChars == LowerLetters \cup UpperLetters \cup Digits \cup {"-", "_"}

\* Tag input is either an array of strings or one comma-separated string
Arr(items) == [kind |-> "array", items |-> items]
Csv(text) == [kind |-> "string", text |-> text]

Ok == [valid |-> TRUE, error |-> "none"]
Err(e) == [valid |-> FALSE, error |-> e]

\* String.prototype.indexOf(ch) from position i, 1-based; 0 when absent
RECURSIVE indexOfChar(_, _, _)
indexOfChar(s, ch, i) ==
  IF i > Len(s) THEN 0
  ELSE IF s[i] = ch THEN i
  ELSE indexOfChar(s, ch, i + 1)

RECURSIVE skipSlashes(_)
skipSlashes(s) ==
  IF s # <<>> /\ Head(s) = "/" THEN skipSlashes(Tail(s)) ELSE s

\* new URL(trimmed): parses when a scheme of letters is followed by ':' and
\* something other than slashes; protocol is the lower-cased scheme
validateUrl(url) ==
  IF url = <<>> THEN Err("URL is required")
  ELSE LET trimmed == trim(url)
           colon == indexOfChar(trimmed, ":", 1)
           protocol == toLowerCase(SubSeq(trimmed, 1, colon - 1))
       IN
    IF trimmed = <<>> THEN Err("URL cannot be empty")
    ELSE IF Len(trimmed) > MaxUrlLen THEN Err("URL is too long")
    ELSE IF colon = 0 \/ ~ matchesClass(protocol, LowerLetters)
      THEN Err("Invalid URL format")
    ELSE IF protocol \notin {<<"h","t","t","p">>, <<"h","t","t","p","s">>}
      THEN Err("URL must use HTTP or HTTPS protocol")
    ELSE IF skipSlashes(SubSeq(trimmed, colon + 1, Len(trimmed))) = <<>>
      THEN Err("Invalid URL format")
    ELSE Ok

validateAlias(alias) ==
  IF alias = <<>> THEN Err("Alias is required")
  ELSE LET trimmed == trim(alias) IN
    IF trimmed = <<>> THEN Err("Alias cannot be empty")
    ELSE IF Len(trimmed) > MaxAliasLen THEN Err("Alias must be max 50 characters")
    ELSE IF ~ matchesClass(trimmed, AliasChars) THEN Err("Alias must be lowercase")
    ELSE Ok

validateFolderName(folderName) ==
  IF folderName = <<>> THEN Ok
  ELSE LET trimmed == trim(folderName) IN
    IF trimmed = <<>> THEN Ok
    ELSE IF Len(trimmed) > MaxFolderLen THEN Err("Folder name must be max 30 characters")
    ELSE IF ~ matchesClass(trimmed, FolderChars) THEN Err("Folder name charset")
    ELSE Ok

validateTag(tag) ==
  IF tag = <<>> THEN Err("Tag must be a string")
  ELSE LET trimmed == trim(tag) IN
    IF trimmed = <<>> THEN Err("Tag cannot be empty")
    ELSE IF Len(trimmed) > MaxTagLen THEN Err("Each tag must be max 20 characters")
    ELSE IF trimmed # toLowerCase(trimmed) THEN Err("Tags must be lowercase only")
    ELSE IF ~ matchesClass(trimmed, AliasChars) THEN Err("Tags charset")
    ELSE Ok

\* String.prototype.split(',')
RECURSIVE splitComma(_, _)
splitComma(s, cur) ==
  IF s = <<>> THEN <<cur>>
  ELSE IF Head(s) = "," THEN <<cur>> \o splitComma(Tail(s), <<>>)
  ELSE splitComma(Tail(s), Append(cur, Head(s)))

\* the first failing validateTag of the list, or Ok
RECURSIVE firstTagError(_)
firstTagError(tagArray) ==
  IF tagArray = <<>> THEN Ok
  ELSE LET check(tagValidation) ==
             IF ~ tagValidation.valid THEN tagValidation
             ELSE firstTagError(Tail(tagArray))
       IN check(validateTag(Head(tagArray)))

\* validateTags without the final sort
validateTags_unsorted(tags) ==
  IF tags.kind = "string" /\ trim(tags.text) = <<>>
    THEN [valid |-> TRUE, error |-> "none", tags |-> <<>>]
  ELSE
    LET result(tagArray, firstError) ==
          IF Len(tagArray) > MaxTagCount
            THEN [valid |-> FALSE, error |-> "Maximum 20 tags allowed", tags |-> <<>>]
          ELSE IF ~ firstError.valid
            THEN [valid |-> FALSE, error |-> firstError.error, tags |-> <<>>]
          ELSE [valid |-> TRUE, error |-> "none", tags |-> dedupe(tagArray)]
        clean(tagArray) == result(tagArray, firstTagError(tagArray))
        trimAll(raw) == clean(dropEmpty([i \in 1..Len(raw) |-> trim(raw[i])]))
    IN trimAll(IF tags.kind = "string" THEN splitComma(tags.text, <<>>) ELSE tags.items)

validateTags(tags) ==
  IF tags.kind = "string" /\ tags.text = <<>> THEN [valid |-> TRUE, error |-> "none", tags |-> <<>>]
  ELSE IF tags.kind = "string" /\ trim(tags.text) = <<>>
    THEN [valid |-> TRUE, error |-> "none", tags |-> <<>>]
  ELSE
    LET result(tagArray, firstError) ==
          IF Len(tagArray) > 0 /\ Len(tagArray) > MaxTagCount
            THEN [valid |-> FALSE, error |-> "Maximum 20 tags allowed", tags |-> <<>>]
          ELSE IF ~ firstError.valid
            THEN [valid |-> FALSE, error |-> firstError.error, tags |-> <<>>]
          ELSE [valid |-> TRUE, error |-> "none", tags |-> sortStrings(dedupe(tagArray))]
        clean(tagArray) == result(tagArray, firstTagError(tagArray))
        trimAll(raw) == clean(dropEmpty([i \in 1..Len(raw) |-> trim(raw[i])]))
    IN trimAll(IF tags.kind = "string" THEN splitComma(tags.text, <<>>) ELSE tags.items)

\* validateShortcut: the set of fields in error, and the normalized tags
validateShortcut(shortcut) ==
  LET result(errors, tagsValidation) ==
        [valid |-> errors = {}, errors |-> errors, tags |-> tagsValidation.tags]
      collect(tagsValidation) ==
        result((IF validateUrl(shortcut.url).valid THEN {} ELSE {"url"})
               \cup (IF validateAlias(shortcut.alias).valid THEN {} ELSE {"alias"})
               \cup (IF validateFolderName(shortcut.folder).valid THEN {} ELSE {"folder"})
               \cup (IF tagsValidation.valid THEN {} ELSE {"tags"}),
               tagsValidation)
  IN collect(validateTags(shortcut.tags))

caseInsensitiveEqual(a, b) == toLowerCase(trim(a)) = toLowerCase(trim(b))

----------------------------------------------------------------------------
(* shortcutService.js: reads *)

\* the ids of a set in ascending order: the key order store.getAll() returns
RECURSIVE keyOrder(_)
keyOrder(ids) ==
  IF ids = {} THEN <<>>
  ELSE LET m == CHOOSE i \in ids : \A j \in ids : i <= j
       IN <<m>> \o keyOrder(ids \ {m})

getAllShortcuts(S) ==
  LET order == keyOrder(DOMAIN S) IN [i \in 1..Len(order) |-> S[order[i]]]

\* getShortcut: the id when stored, NullId otherwise
getShortcut(S, id) == IF id \in DOMAIN S THEN id ELSE NullId

sameKey(s, folder, alias) ==
  /\ toLowerCase(trim(s.folder)) = toLowerCase(trim(folder))
  /\ toLowerCase(trim(s.alias)) = toLowerCase(trim(alias))

\* getShortcutByFullAlias comparing the trimmed strings without toLowerCase()
getShortcutByFullAlias_caseSensitive(S, folder, alias) ==
  LET hits == {i \in DOMAIN S : /\ trim(S[i].folder) = trim(folder)
                                /\ trim(S[i].alias) = trim(alias)}
  IN IF hits = {} THEN NullId
     ELSE CHOOSE i \in hits : \A j \in hits : i <= j

\* allShortcuts.find(...): the id of the first match in key order (the least
\* matching key, since getAll returns the records by ascending key), or NullId
getShortcutByFullAlias(S, folder, alias) ==
  LET hits == {i \in DOMAIN S : sameKey(S[i], folder, alias)}
  IN IF hits = {} THEN NullId
     ELSE CHOOSE i \in hits : \A j \in hits : i <= j

getShortcutsByFolder(S, folder) ==
  SelectSeq(getAllShortcuts(S),
            LAMBDA s : toLowerCase(trim(s.folder)) = toLowerCase(trim(folder)))

----------------------------------------------------------------------------
(* shortcutService.js: writes.  Each operator returns the store after the   *)
(* call, the outcome ("ok" or the error thrown) and the value returned.     *)

Outcome(S, res, ret) == [store |-> S, res |-> res, ret |-> ret]

\* store.put(record): insert or overwrite under the record's own key
put(S, rec) == [i \in DOMAIN S \cup {rec.id} |-> IF i = rec.id THEN rec ELSE S[i]]

\* store.delete(id): succeeds whether or not the key is present
storeDelete(S, id) == [i \in DOMAIN S \ {id} |-> S[i]]

\* { ...existing, ...updates }
spread(existing, updates) ==
  [f \in DOMAIN existing \cup DOMAIN updates |->
     IF f \in DOMAIN updates THEN updates[f] ELSE existing[f]]

\* formatDateISO(): the ISO string of the current time
Iso(t) == [iso |-> t]
formatDateISO == Iso(now)

\* Date.now(): the current time as a number of milliseconds
Millis(t) == [ms |-> t]
DateNow == Millis(now)

\* the null a field is created with
Null == [null |-> TRUE]

createShortcut(S, data, uuid) ==
  LET add(validation) ==
        IF ~ validation.valid THEN Outcome(S, "ValidationFailed", NullId)
        ELSE IF getShortcutByFullAlias(S, data.folder, data.alias) # NullId
          THEN Outcome(S, "AliasExists", NullId)
        ELSE Outcome(put(S, [id |-> uuid,
                             url |-> trim(data.url),
                             alias |-> trim(data.alias),
                             folder |-> IF data.folder # <<>> THEN trim(data.folder)
                                        ELSE <<>>,
                             tags |-> Arr(validation.tags),
                             createdAt |-> formatDateISO,
                             updatedAt |-> formatDateISO,
                             lastAccessed |-> Null,
                             accessCount |-> 0,
                             isFavorite |-> FALSE]),
                     "ok", uuid)
  IN add(validateShortcut(data))

\* updateShortcut whose conflict test forgets "existingAlias.id !== id"
updateShortcut_noSelfExclusion(S, id, updates) ==
  IF getShortcut(S, id) = NullId THEN Outcome(S, "NotFound", NullId)
  ELSE
    LET rechecked == \/ ("alias" \in DOMAIN updates /\ updates.alias # <<>>)
                     \/ "folder" \in DOMAIN updates
        store(updated, validation, existingAlias) ==
          IF ~ validation.valid THEN Outcome(S, "ValidationFailed", NullId)
          ELSE IF rechecked /\ existingAlias # NullId
            THEN Outcome(S, "AliasExists", NullId)
          ELSE Outcome(put(S, [updated EXCEPT !.tags = Arr(validation.tags),
                                              !.updatedAt = formatDateISO]),
                       "ok", updated.id)
        merge(updated) ==
          store(updated, validateShortcut(updated),
                getShortcutByFullAlias(S, updated.folder, updated.alias))
    IN merge(spread(S[id], updates))

updateShortcut(S, id, updates) ==
  IF getShortcut(S, id) = NullId THEN Outcome(S, "NotFound", NullId)
  ELSE
    LET rechecked == \/ ("alias" \in DOMAIN updates /\ updates.alias # <<>>)
                     \/ "folder" \in DOMAIN updates
        store(updated, validation, existingAlias) ==
          IF ~ validation.valid THEN Outcome(S, "ValidationFailed", NullId)
          ELSE IF rechecked /\ existingAlias # NullId /\ existingAlias # id
            THEN Outcome(S, "AliasExists", NullId)
          ELSE Outcome(put(S, [updated EXCEPT !.tags = Arr(validation.tags),
                                              !.updatedAt = formatDateISO]),
                       "ok", updated.id)
        merge(updated) ==
          store(updated, validateShortcut(updated),
                getShortcutByFullAlias(S, updated.folder, updated.alias))
    IN merge(spread(S[id], updates))

deleteShortcut(S, id) == Outcome(storeDelete(S, id), "ok", NullId)

trackShortcutAccess(S, shortcutId) ==
  IF shortcutId \notin DOMAIN S THEN Outcome(S, "NotFound", NullId)
  ELSE LET updatedShortcut ==
             [S[shortcutId] EXCEPT !.accessCount = S[shortcutId].accessCount + 1,
                                   !.lastAccessed = DateNow,
                                   !.updatedAt = formatDateISO]
       IN Outcome(put(S, updatedShortcut), "ok", shortcutId)

incrementAccessCount(S, id) ==
  IF getShortcut(S, id) = NullId THEN Outcome(S, "NotFound", NullId)
  ELSE updateShortcut(S, id, [accessCount |-> S[id].accessCount + 1,
                              lastAccessedAt |-> formatDateISO])

\* .sort((a, b) => (b.accessCount || 0) - (a.accessCount || 0)): stable,
\* descending by accessCount
RECURSIVE insertByAccessCount(_, _)
insertByAccessCount(sorted, x) ==
  IF sorted = <<>> THEN <<x>>
  ELSE IF x.accessCount > Head(sorted).accessCount THEN <<x>> \o sorted
  ELSE <<Head(sorted)>> \o insertByAccessCount(Tail(sorted), x)

RECURSIVE sortByAccessCount(_)
sortByAccessCount(s) ==
  IF s = <<>> THEN <<>>
  ELSE insertByAccessCount(sortByAccessCount(SubSeq(s, 1, Len(s) - 1)), s[Len(s)])

\* .slice(0, limit)
slice0(s, limit) == SubSeq(s, 1, IF limit < Len(s) THEN limit ELSE Len(s))

getFrequentShortcuts(S, limit) == slice0(sortByAccessCount(getAllShortcuts(S)), limit)

\* trackAccess of useRecentShortcuts.js: the count is taken from the list the
\* hook has loaded; a failure of updateShortcut is caught and logged
trackAccess(S, loaded, shortcutId) ==
  IF \A i \in 1..Len(loaded) : loaded[i].id # shortcutId
    THEN [store |-> S, loaded |-> loaded, res |-> "ok"]
  ELSE
    LET write(updatedShortcut) ==
          [store |-> updateShortcut(S, shortcutId,
                                    [accessCount |-> updatedShortcut.accessCount,
                                     lastAccessed |-> updatedShortcut.lastAccessed]).store,
           loaded |-> [i \in 1..Len(loaded) |->
                         IF loaded[i].id = shortcutId THEN updatedShortcut ELSE loaded[i]],
           res |-> "ok"]
        track(shortcut) ==
          write([shortcut EXCEPT !.accessCount = shortcut.accessCount + 1,
                                 !.lastAccessed = DateNow])
    IN track(loaded[CHOOSE i \in 1..Len(loaded) : loaded[i].id = shortcutId])

\* the for-loop of renameFolder over the list read before the loop
RECURSIVE renameLoop(_, _, _, _)
renameLoop(S, todo, newName, updated) ==
  IF todo = <<>> THEN Outcome(S, "ok", updated)
  ELSE
    LET next(u) ==
          IF u.res # "ok" THEN Outcome(u.store, u.res, updated)
          ELSE renameLoop(u.store, Tail(todo), newName, updated + 1)
        step(shortcut, existingAlias) ==
          IF existingAlias # NullId /\ existingAlias # shortcut.id
            THEN Outcome(S, "RenameConflict", updated)
          ELSE next(updateShortcut(S, shortcut.id, [folder |-> newName]))
    IN step(Head(todo), getShortcutByFullAlias(S, newName, Head(todo).alias))

\* renameFolder reading the folder's shortcuts by the exact folder text
renameFolder_exactFolder(S, oldName, newName) ==
  IF caseInsensitiveEqual(oldName, newName) THEN Outcome(S, "ok", 0)
  ELSE renameLoop(S, SelectSeq(getAllShortcuts(S), LAMBDA s : s.folder = oldName), newName, 0)

renameFolder(S, oldName, newName) ==
  IF caseInsensitiveEqual(oldName, newName) THEN Outcome(S, "ok", 0)
  ELSE renameLoop(S, getShortcutsByFolder(S, oldName), newName, 0)

\* Array.from(new Set(tags).add(...newTags))
addAll(tags, newTags) == dedupe(tags \o newTags)

\* one iteration of the for-loop of bulkOperation on an id that is stored
bulkStep(S, id, operation, operationData) ==
  IF operation = "delete" THEN deleteShortcut(S, id)
  ELSE IF operation = "addTags" THEN
    LET newTags == IF operationData.kind = "array" THEN operationData.items
                   ELSE <<operationData.item>>
    IN updateShortcut(S, id, [tags |-> Arr(addAll(S[id].tags.items, newTags))])
  ELSE IF operation = "removeTag" THEN
    updateShortcut(S, id,
      [tags |-> Arr(SelectSeq(S[id].tags.items, LAMBDA t : t # operationData.item))])
  ELSE IF operation = "moveToFolder" THEN
    updateShortcut(S, id, [folder |-> operationData])
  ELSE Outcome(S, "UnknownOperation", NullId)

\* the for-loop of bulkOperation; ret is <<updated, failed>>
RECURSIVE bulkLoop(_, _, _, _, _, _)
bulkLoop(S, ids, operation, operationData, updated, failed) ==
  IF ids = <<>> THEN Outcome(S, "ok", <<updated, failed>>)
  ELSE IF getShortcut(S, Head(ids)) = NullId
    THEN bulkLoop(S, Tail(ids), operation, operationData, updated, failed + 1)
  ELSE LET next(r) ==
             IF r.res = "ok"
               THEN bulkLoop(r.store, Tail(ids), operation, operationData, updated + 1, failed)
               ELSE bulkLoop(r.store, Tail(ids), operation, operationData, updated, failed + 1)
       IN next(bulkStep(S, Head(ids), operation, operationData))

bulkOperation(S, ids, operation, operationData) ==
  bulkLoop(S, ids, operation, operationData, 0, 0)

----------------------------------------------------------------------------
(* shortcutService.js, call by call: an async function runs from one await  *)
(* to the next without interruption, and other calls run in between.  A     *)
(* call in progress is a record of the await it is suspended at (pc) and of *)
(* its local variables; a step returns the store, the call as it goes on    *)
(* (Null when it has returned or thrown), and the outcome.                  *)

Pending(op, pc, id, data, rec) == [op |-> op, pc |-> pc, id |-> id, data |-> data, rec |-> rec]
StepOut(S, call, res, ret) == [store |-> S, call |-> call, res |-> res, ret |-> ret]

\* createShortcut(data) up to `await getShortcutByFullAlias(...)`
createStart(data) ==
  IF ~ validateShortcut(data).valid THEN StepOut(<<>>, Null, "ValidationFailed", NullId)
  ELSE StepOut(<<>>, Pending("createShortcut", "check", NullId, data, Null), "pending", NullId)

\* the duplicate check resolves; the record is built; `await getStore(...)`
createChecked(S, c, uuid) ==
  IF getShortcutByFullAlias(S, c.data.folder, c.data.alias) # NullId
    THEN StepOut(S, Null, "AliasExists", NullId)
  ELSE StepOut(S, [c EXCEPT !.pc = "write",
                            !.rec = [id |-> uuid,
                                     url |-> trim(c.data.url),
                                     alias |-> trim(c.data.alias),
                                     folder |-> IF c.data.folder # <<>> THEN trim(c.data.folder)
                                                ELSE <<>>,
                                     tags |-> Arr(validateShortcut(c.data).tags),
                                     createdAt |-> formatDateISO,
                                     updatedAt |-> formatDateISO,
                                     lastAccessed |-> Null,
                                     accessCount |-> 0,
                                     isFavorite |-> FALSE]],
               "pending", NullId)

\* store.add(shortcut)
createAdd(S, c) ==
  IF c.rec.id \in DOMAIN S THEN StepOut(S, Null, "AddFailed", NullId)
  ELSE StepOut(put(S, c.rec), Null, "ok", c.rec.id)

\* updateShortcut(id, updates) up to `await getShortcut(id)`
updateStart(op, id, updates) ==
  StepOut(<<>>, Pending(op, "get", id, updates, Null), "pending", NullId)

\* the record read; merge and validation; `await getShortcutByFullAlias(...)`
\* when the alias or the folder is patched, `await getStore(...)` otherwise
updateGot(S, c) ==
  IF getShortcut(S, c.id) = NullId THEN StepOut(S, Null, "NotFound", NullId)
  ELSE
    LET rechecked == \/ ("alias" \in DOMAIN c.data /\ c.data.alias # <<>>)
                     \/ "folder" \in DOMAIN c.data
        next(updated, validation) ==
          IF ~ validation.valid THEN StepOut(S, Null, "ValidationFailed", NullId)
          ELSE IF rechecked
            THEN StepOut(S, [c EXCEPT !.pc = "check", !.rec = updated], "pending", NullId)
          ELSE StepOut(S, [c EXCEPT !.pc = "write",
                                    !.rec = [updated EXCEPT !.tags = Arr(validation.tags),
                                                            !.updatedAt = formatDateISO]],
                       "pending", NullId)
        merge(updated) == next(updated, validateShortcut(updated))
    IN merge(spread(S[c.id], c.data))

\* the conflict check resolves; tags and updatedAt are set; `await getStore(...)`
updateChecked(S, c) ==
  LET next(existingAlias) ==
        IF existingAlias # NullId /\ existingAlias # c.id
          THEN StepOut(S, Null, "AliasExists", NullId)
        ELSE StepOut(S, [c EXCEPT !.pc = "write",
                                  !.rec = [c.rec EXCEPT !.tags = Arr(validateShortcut(c.rec).tags),
                                                        !.updatedAt = formatDateISO]],
                     "pending", NullId)
  IN next(getShortcutByFullAlias(S, c.rec.folder, c.rec.alias))

\* store.put(updated)
updatePut(S, c) == StepOut(put(S, c.rec), Null, "ok", c.rec.id)

\* incrementAccessCount(id) up to `await getShortcut(id)`
incrementStart(id) ==
  StepOut(<<>>, Pending("incrementAccessCount", "read", id, <<>>, Null), "pending", NullId)

\* the record read; the patch is built from it and updateShortcut is called
incrementRead(S, c) ==
  IF getShortcut(S, c.id) = NullId THEN StepOut(S, Null, "NotFound", NullId)
  ELSE StepOut(S, updateStart(c.op, c.id, [accessCount |-> S[c.id].accessCount + 1,
                                           lastAccessedAt |-> formatDateISO]).call,
               "pending", NullId)

\* trackShortcutAccess(shortcutId) up to `await getStore('shortcuts', 'readwrite')`
trackStart(shortcutId) ==
  StepOut(<<>>, Pending("trackShortcutAccess", "transaction", shortcutId, <<>>, Null),
          "pending", NullId)

\* store.get and store.put of trackShortcutAccess, in its one transaction
trackTransaction(S, c) ==
  LET done(r) == StepOut(r.store, Null, r.res, r.ret)
  IN done(trackShortcutAccess(S, c.id))

\* the calls in progress after the step of the i-th
removeAt(s, i) == [j \in 1..(Len(s) - 1) |-> IF j < i THEN s[j] ELSE s[j + 1]]
proceed(pending, i, call) ==
  IF call = Null THEN removeAt(pending, i) ELSE [pending EXCEPT ![i] = call]

----------------------------------------------------------------------------
(* appStore.js, the shortcuts slice, and useShortcutsData.js over it and    *)
(* over shortcutService                                                     *)

\* addShortcut(shortcut)
storeAddShortcut(list, shortcut) == Append(list, shortcut)

\* updateShortcut(id, updates) of the slice: { ...s, ...updates } on the match
storeUpdateShortcut(list, id, updates) ==
  [i \in 1..Len(list) |-> IF list[i].id = id THEN spread(list[i], updates) ELSE list[i]]

\* deleteShortcut(id) of the slice
storeDeleteShortcut(list, id) == SelectSeq(list, LAMBDA sh : sh.id # id)

\* what a call of the hook leaves behind: the record store, the slice, outcome
HookOutcome(S, list, res) == [store |-> S, app |-> list, res |-> res]

\* loadShortcuts: useShortcuts() hands out no setShortcuts, so the call of it
\* throws after the list was read, and the error is caught and shown
hookLoadShortcuts(S, list) == HookOutcome(S, list, "LoadFailed")

hookCreateShortcut(S, list, data, uuid) ==
  LET added(r) ==
        IF r.res # "ok" THEN HookOutcome(r.store, list, r.res)
        ELSE HookOutcome(r.store, storeAddShortcut(list, r.store[r.ret]), "ok")
  IN added(createShortcut(S, data, uuid))

hookUpdateShortcut(S, list, id, updates) ==
  LET updated(r) ==
        IF r.res # "ok" THEN HookOutcome(r.store, list, r.res)
        ELSE HookOutcome(r.store, storeUpdateShortcut(list, id, updates), "ok")
  IN updated(updateShortcut(S, id, updates))

hookDeleteShortcut(S, list, id) ==
  IF getShortcut(S, id) = NullId THEN HookOutcome(S, list, "NotFound")
  ELSE HookOutcome(deleteShortcut(S, id).store, storeDeleteShortcut(list, id), "ok")

\* recordAccess: a failure is caught and logged
recordAccess(S, list, id) ==
  LET noted(r) ==
        IF r.res # "ok" THEN HookOutcome(r.store, list, r.res)
        ELSE HookOutcome(r.store,
                         storeUpdateShortcut(list, id,
                           [accessCount |-> r.store[r.ret].accessCount,
                            lastAccessedAt |-> r.store[r.ret].lastAccessedAt]),
                         "ok")
  IN noted(incrementAccessCount(S, id))

----------------------------------------------------------------------------
(* folderService: the 'folders' store is keyed by the exact name           *)

\* what a folderService call leaves behind: both stores, outcome, return value
FsOutcome(S, F, res, ret) == [store |-> S, folders |-> F, res |-> res, ret |-> ret]

\* getFolderByName: TRUE when a record is stored under name.trim()
getFolderByName(F, name) == name # <<>> /\ trim(name) \in F

createFolder(F, name) ==
  IF ~ validateFolderName(name).valid THEN [folders |-> F, res |-> "InvalidFolderName"]
  ELSE IF getFolderByName(F, trim(name)) THEN [folders |-> F, res |-> "FolderExists"]
  ELSE IF trim(name) \in F THEN [folders |-> F, res |-> "AddFailed"]
  ELSE [folders |-> F \cup {trim(name)}, res |-> "ok"]

getOrCreateFolder(F, name) ==
  IF name = <<>> \/ trim(name) = <<>> THEN [folders |-> F, res |-> "ok"]
  ELSE IF getFolderByName(F, trim(name)) THEN [folders |-> F, res |-> "ok"]
  ELSE createFolder(F, trim(name))

fsRenameFolder(S, F, oldName, newName) ==
  IF ~ validateFolderName(newName).valid THEN FsOutcome(S, F, "InvalidFolderName", 0)
  ELSE
    LET normalizedOldName == trim(oldName)
        normalizedNewName == trim(newName)
    IN IF caseInsensitiveEqual(normalizedOldName, normalizedNewName)
         THEN FsOutcome(S, F, "ok", 0)
       ELSE IF getFolderByName(F, normalizedNewName)
         THEN FsOutcome(S, F, "FolderExists", 0)
       ELSE LET replace(r) ==
                  IF r.res # "ok" THEN FsOutcome(r.store, F, r.res, r.ret)
                  ELSE IF normalizedNewName \in F \ {normalizedOldName}
                    THEN FsOutcome(r.store, F, "AddFailed", r.ret)
                  ELSE FsOutcome(r.store,
                                 (F \ {normalizedOldName}) \cup {normalizedNewName},
                                 "ok", r.ret)
            IN replace(renameFolder(S, normalizedOldName, normalizedNewName))

\* deleteFolder without the check for shortcuts in the folder
deleteFolder_unchecked(S, F, name) == [folders |-> F \ {trim(name)}, res |-> "ok"]

deleteFolder(S, F, name) ==
  IF Len(getShortcutsByFolder(S, trim(name))) > 0
    THEN [folders |-> F, res |-> "FolderNotEmpty"]
    ELSE [folders |-> F \ {trim(name)}, res |-> "ok"]

\* the names of the folders in key order, as getAllFolders returns them
RECURSIVE folderOrder(_)
folderOrder(F) ==
  IF F = {} THEN <<>>
  ELSE LET m == CHOOSE a \in F : \A b \in F : a = b \/ strLess(a, b)
       IN <<m>> \o folderOrder(F \ {m})

\* cleanupEmptyFolders with deletedCount++ moved out of the try block
RECURSIVE cleanupLoop_countAll(_, _, _, _)
cleanupLoop_countAll(S, F, todo, deletedCount) ==
  IF todo = <<>> THEN [folders |-> F, res |-> "ok", ret |-> deletedCount]
  ELSE LET next(d) == cleanupLoop_countAll(S, d.folders, Tail(todo), deletedCount + 1)
       IN next(deleteFolder(S, F, Head(todo)))

\* the for-loop of cleanupEmptyFolders
RECURSIVE cleanupLoop(_, _, _, _)
cleanupLoop(S, F, todo, deletedCount) ==
  IF todo = <<>> THEN [folders |-> F, res |-> "ok", ret |-> deletedCount]
  ELSE LET next(d) ==
             IF d.res = "ok" THEN cleanupLoop(S, d.folders, Tail(todo), deletedCount + 1)
             ELSE cleanupLoop(S, F, Tail(todo), deletedCount)
       IN next(deleteFolder(S, F, Head(todo)))

cleanupEmptyFolders(S, F) == cleanupLoop(S, F, folderOrder(F), 0)

----------------------------------------------------------------------------------------------------------------------------------------------
(* Search: shortcutService.searchShortcuts and the omnibox search of         *)
(* background.js                                                            *)

\* which of the four arrays the loop of searchShortcuts pushes a shortcut to
\* (0: none); q is the trimmed, lower-cased query
pushedTo(shortcut, q) ==
  LET aliasPart == toLowerCase(shortcut.alias)
      folderPart == toLowerCase(shortcut.folder)
      fullAlias == folderPart \o <<"/">> \o aliasPart
      urlLower == toLowerCase(shortcut.url)
      tagsLower == [i \in 1..Len(shortcut.tags.items) |-> toLowerCase(shortcut.tags.items[i])]
  IN IF aliasPart = q \/ fullAlias = q THEN 1
     ELSE IF includes(aliasPart, q) \/ includes(fullAlias, q) \/ includes(folderPart, q) THEN 2
     ELSE IF \E i \in 1..Len(tagsLower) : includes(tagsLower[i], q) THEN 3
     ELSE IF includes(urlLower, q) THEN 4
     ELSE 0

\* the for-loop of searchShortcuts over allShortcuts, filling the four arrays
RECURSIVE searchLoop(_, _, _, _, _, _)
searchLoop(todo, q, exact, partial, tagMatches, urlMatches) ==
  IF todo = <<>> THEN exact \o partial \o tagMatches \o urlMatches
  ELSE LET shortcut == Head(todo)
           k == pushedTo(shortcut, q)
       IN searchLoop(Tail(todo), q,
                     IF k = 1 THEN Append(exact, shortcut) ELSE exact,
                     IF k = 2 THEN Append(partial, shortcut) ELSE partial,
                     IF k = 3 THEN Append(tagMatches, shortcut) ELSE tagMatches,
                     IF k = 4 THEN Append(urlMatches, shortcut) ELSE urlMatches)

searchShortcuts(S, query) ==
  IF query = <<>> \/ trim(query) = <<>> THEN <<>>
  ELSE searchLoop(getAllShortcuts(S), toLowerCase(trim(query)), <<>>, <<>>, <<>>, <<>>)

\* Array.prototype.join(' ')
RECURSIVE joinSpace(_)
joinSpace(items) ==
  IF items = <<>> THEN <<>>
  ELSE IF Len(items) = 1 THEN items[1]
  ELSE items[1] \o <<" ">> \o joinSpace(Tail(items))

\* the score the omnibox search gives a shortcut
omniboxScore(shortcut, lowerQuery) ==
  LET alias == toLowerCase(shortcut.alias)
      url == toLowerCase(shortcut.url)
      tags == toLowerCase(joinSpace(shortcut.tags.items))
      folder == toLowerCase(shortcut.folder)
  IN IF alias = lowerQuery THEN 1000
     ELSE IF includes(alias, lowerQuery) THEN 800
     ELSE IF includes(tags, lowerQuery) THEN 600
     ELSE IF includes(url, lowerQuery) THEN 400
     ELSE IF includes(folder, lowerQuery) THEN 200
     ELSE 0

\* .sort((a, b) => b.score - a.score): stable, descending by score
RECURSIVE insertByScore(_, _)
insertByScore(sorted, x) ==
  IF sorted = <<>> THEN <<x>>
  ELSE IF x.score > Head(sorted).score THEN <<x>> \o sorted
  ELSE <<Head(sorted)>> \o insertByScore(Tail(sorted), x)

RECURSIVE sortByScore(_)
sortByScore(s) ==
  IF s = <<>> THEN <<>>
  ELSE insertByScore(sortByScore(SubSeq(s, 1, Len(s) - 1)), s[Len(s)])

\* searchShortcuts(shortcuts, query) of background.js, on the synced list
omniboxSearch(list, query) ==
  LET lowerQuery == toLowerCase(query)
      scored == [i \in 1..Len(list) |->
                   spread(list[i], [score |-> omniboxScore(list[i], lowerQuery)])]
  IN sortByScore(SelectSeq(scored, LAMBDA sc : sc.score > 0))

\* getFavorites(shortcuts, limit) of background.js, on the synced list: the
\* score is the accessCount plus 1 when a lastAccessedAt is recorded
favoriteScore(shortcut) ==
  shortcut.accessCount + (IF "lastAccessedAt" \in DOMAIN shortcut THEN 1 ELSE 0)

RECURSIVE insertByFavorite(_, _)
insertByFavorite(sorted, x) ==
  IF sorted = <<>> THEN <<x>>
  ELSE IF favoriteScore(x) > favoriteScore(Head(sorted)) THEN <<x>> \o sorted
  ELSE <<Head(sorted)>> \o insertByFavorite(Tail(sorted), x)

RECURSIVE sortByFavorite(_)
sortByFavorite(s) ==
  IF s = <<>> THEN <<>>
  ELSE insertByFavorite(sortByFavorite(SubSeq(s, 1, Len(s) - 1)), s[Len(s)])

getFavorites(list, limit) == slice0(sortByFavorite(list), limit)

----------------------------------------------------------------------------
(* useSearchData.js, useDebouncedSearch: the filter and the sort of the      *)
(* debounced item list                                                      *)

\* String.prototype.startsWith
startsWith(s, p) == Len(p) <= Len(s) /\ SubSeq(s, 1, Len(p)) = p

\* searchText.split('/', 2): the text before the first '/', and the text
\* between the first '/' and the second (or the end)
splitSlash(searchText) ==
  LET first == indexOfChar(searchText, "/", 1)
      second == indexOfChar(searchText, "/", first + 1)
  IN [folderPart |-> SubSeq(searchText, 1, first - 1),
      aliasPart |-> SubSeq(searchText, first + 1,
                           IF second = 0 THEN Len(searchText) ELSE second - 1)]

\* the fields searchFields names, as the strings the hook searches in
searchableValues(item) ==
  <<item.alias, item.url, joinSpace(item.tags.items), item.folder>>

\* defaultSearchFunction(item, query), caseSensitive = false
defaultSearchFunction(item, query) ==
  IF trim(query) = <<>> THEN TRUE
  ELSE
    LET match(searchText, itemFolder, itemAlias) ==
          IF includes(searchText, <<"/">>)
            THEN LET scoped(parts) ==
                       IF parts.aliasPart = <<>>
                         THEN includes(itemFolder, parts.folderPart)
                         ELSE /\ includes(itemFolder, parts.folderPart)
                              /\ includes(itemAlias, parts.aliasPart)
                 IN scoped(splitSlash(searchText))
          ELSE \E f \in 1..4 :
                 /\ searchableValues(item)[f] # <<>>
                 /\ includes(toLowerCase(searchableValues(item)[f]), searchText)
    IN match(toLowerCase(query), toLowerCase(item.folder), toLowerCase(item.alias))

\* the score of one searched field in a regular search
fieldScore(searchableValue, searchText) ==
  IF searchableValue = searchText THEN 100
  ELSE IF startsWith(searchableValue, searchText) THEN 50
  ELSE IF includes(searchableValue, searchText) THEN 25
  ELSE 0

\* getMatchScore(item) of defaultSortFunction, for the lower-cased query
getMatchScore(item, searchText) ==
  LET itemFolder == toLowerCase(item.folder)
      itemAlias == toLowerCase(item.alias)
      scoped(parts) ==
        (IF itemFolder = parts.folderPart THEN 100
         ELSE IF includes(itemFolder, parts.folderPart) THEN 50
         ELSE 0)
        + (IF parts.aliasPart = <<>> THEN 0
           ELSE IF itemAlias = parts.aliasPart THEN 100
           ELSE IF startsWith(itemAlias, parts.aliasPart) THEN 75
           ELSE IF includes(itemAlias, parts.aliasPart) THEN 25
           ELSE 0)
      regular(values) ==
        fieldScore(toLowerCase(values[1]), searchText)
        + fieldScore(toLowerCase(values[2]), searchText)
        + fieldScore(toLowerCase(values[3]), searchText)
        + fieldScore(toLowerCase(values[4]), searchText)
  IN IF includes(searchText, <<"/">>) THEN scoped(splitSlash(searchText))
     ELSE regular(searchableValues(item))

\* String.prototype.localeCompare on lower-cased aliases: over the alias
\* characters (a-z, 0-9, '-') the collation order is the code unit order
localeCompare(a, b) ==
  IF strLess(a, b) THEN -1 ELSE IF strLess(b, a) THEN 1 ELSE 0

\* defaultSortFunction(a, b, query)
defaultSortFunction(a, b, query) ==
  IF trim(query) = <<>> THEN 0
  ELSE LET compare(scoreA, scoreB) ==
             IF scoreA # scoreB THEN scoreB - scoreA
             ELSE localeCompare(toLowerCase(a.alias), toLowerCase(b.alias))
       IN compare(getMatchScore(a, toLowerCase(query)),
                  getMatchScore(b, toLowerCase(query)))

\* Array.prototype.sort(sortFn): stable
RECURSIVE insertBySortFn(_, _, _)
insertBySortFn(sorted, x, query) ==
  IF sorted = <<>> THEN <<x>>
  ELSE IF defaultSortFunction(x, Head(sorted), query) < 0 THEN <<x>> \o sorted
  ELSE <<Head(sorted)>> \o insertBySortFn(Tail(sorted), x, query)

RECURSIVE sortBySortFn(_, _)
sortBySortFn(s, query) ==
  IF s = <<>> THEN <<>>
  ELSE insertBySortFn(sortBySortFn(SubSeq(s, 1, Len(s) - 1), query), s[Len(s)], query)

\* items.filter(item => searchFn(item, debouncedQuery))
RECURSIVE filterItems(_, _)
filterItems(items, query) ==
  IF items = <<>> THEN <<>>
  ELSE IF defaultSearchFunction(Head(items), query)
    THEN <<Head(items)>> \o filterItems(Tail(items), query)
  ELSE filterItems(Tail(items), query)

\* filteredItems: the memo of useDebouncedSearch for the debounced query
filteredItems(items, debouncedQuery) ==
  IF trim(debouncedQuery) = <<>> THEN items
  ELSE sortBySortFn(filterItems(items, debouncedQuery), debouncedQuery)

----------------------------------------------------------------------------
(* useSearchData.js, useSearchData: the result cache and performSearch       *)

CacheCapacity == 50

\* a property key that is an array index: a canonical decimal numeral
isArrayIndex(key) ==
  /\ key # <<>>
  /\ \A i \in 1..Len(key) : key[i] \in Digits
  /\ (Len(key) = 1 \/ key[1] # "0")

\* a < b as numbers, for canonical decimal numerals
numLess(a, b) == Len(a) < Len(b) \/ (Len(a) = Len(b) /\ strLess(a, b))

\* ascending numeric order of a set of array-index keys
RECURSIVE indexOrder(_)
indexOrder(keys) ==
  IF keys = {} THEN <<>>
  ELSE LET m == CHOOSE a \in keys : \A b \in keys : a = b \/ numLess(a, b)
       IN <<m>> \o indexOrder(keys \ {m})

\* Object.keys(cache): the array-index keys in ascending numeric order, then
\* the other keys in the order they were created
objectKeys(cache) ==
  LET keys == [i \in 1..Len(cache) |-> cache[i].key]
  IN indexOrder({keys[i] : i \in {j \in 1..Len(cache) : isArrayIndex(keys[j])}})
     \o SelectSeq(keys, LAMBDA k : ~ isArrayIndex(k))

\* the position of the entry of a key in the cache, 0 when there is none
cacheIndex(cache, key) ==
  IF \E i \in 1..Len(cache) : cache[i].key = key
    THEN CHOOSE i \in 1..Len(cache) : cache[i].key = key
    ELSE 0

\* cache[key] = results: a new property is created last, an old one keeps its place
cacheSet(cache, key, results) ==
  IF cacheIndex(cache, key) = 0 THEN Append(cache, [key |-> key, results |-> results])
  ELSE [cache EXCEPT ![cacheIndex(cache, key)].results = results]

\* delete cache[key]
cacheDelete(cache, key) == SelectSeq(cache, LAMBDA e : e.key # key)

\* performSearch up to the await: what it does with the query
\*   "blank": results set to [];  "hit": results set from the cache;
\*   "miss": shortcutService.searchShortcuts is called
performSearch(cache, query) ==
  IF query = <<>> \/ trim(query) = <<>> THEN [res |-> "blank", results |-> <<>>]
  ELSE LET lookup(i) ==
             IF i # 0 THEN [res |-> "hit", results |-> cache[i].results]
             ELSE [res |-> "miss", results |-> <<>>]
       IN lookup(cacheIndex(cache, toLowerCase(trim(query))))

\* performSearch after the await: the cache with the results stored and,
\* above the capacity, without the first key of Object.keys
cacheResults(cache, query, results) ==
  LET evict(stored) ==
        IF Len(stored) > CacheCapacity
          THEN cacheDelete(stored, objectKeys(stored)[1])
          ELSE stored
  IN evict(cacheSet(cache, toLowerCase(trim(query)), results))

\* setTimeout: an id no pending timeout has and the ref does not hold
newTimerId(pending, ref) ==
  CHOOSE id \in 1..(MaxTimers + 1) :
    /\ id # ref
    /\ \A t \in pending : t.id # id
    /\ \A j \in 1..(id - 1) : j = ref \/ \E t \in pending : t.id = j

\* clearTimeout(id)
clearTimeout(pending, id) == {t \in pending : t.id # id}

\* handleSearch that sets the new timeout without clearing the old one
handleSearch_noClear(pending, ref, query) ==
  LET set(id) == [timers |-> pending \cup {[id |-> id, query |-> query]}, ref |-> id]
  IN set(newTimerId(pending, ref))

\* handleSearch: the pending timeouts and the ref after the call
handleSearch(pending, ref, query) ==
  LET set(cleared, id) ==
        [timers |-> cleared \cup {[id |-> id, query |-> query]}, ref |-> id]
      clear(cleared) == set(cleared, newTimerId(cleared, ref))
  IN clear(IF ref # NullId THEN clearTimeout(pending, ref) ELSE pending)

----------------------------------------------------------------------------
(* Inputs the callers are given *)

a_m == <<"m">>
a_n == <<"n">>
a_M == <<"M">>                    \* rejected by validateAlias: upper case
root == <<>>
f_w == <<"w">>
f_t == <<"t">>
f_Wsp == <<"W", " ">>             \* "W " : equal to "w" after trim and lower-casing
f_bad == <<"!">>                  \* rejected by validateFolderName
u_ok == <<"h","t","t","p",":","x">>
u_ftp == <<"f","t","p",":","x">>  \* rejected by validateUrl: not http(s)

NoTags == Arr(<<>>)

Draft(url, alias, folder) == [url |-> url, alias |-> alias, folder |-> folder, tags |-> NoTags]

\* create/update calls of the namespace specification
Drafts == {Draft(u_ok, a, f) : a \in {a_m, a_n}, f \in {root, f_w}}
          \cup {Draft(u_ok, a_m, f_Wsp), Draft(u_ok, a_M, f_w), Draft(u_ftp, a_m, root)}

Patches == [alias : {a_m, a_n}] \cup [folder : {root, f_w, f_Wsp}]
           \cup {[alias |-> a_M, folder |-> f_w]}
           \cup [id : Ids]

\* calls of the rename specification
RenameDrafts == {Draft(u_ok, a, f) : a \in {a_m, a_n}, f \in {f_w, f_t}}
RenameNames == {f_w, f_t, f_Wsp, f_bad}
BulkIdLists == {<<1, 2>>, <<2, 1>>}

\* calls of the folder specification
FolderDrafts == {Draft(u_ok, a_m, f_w), Draft(u_ok, a_m, f_t)}
FolderNames == {f_w, f_t, f_Wsp, f_bad}

\* calls of the access specification
AccessDrafts == {Draft(u_ok, a_m, root), Draft(u_ok, a_n, root)}
AccessPatches == [accessCount : 0..MaxAccess] \cup [alias : {a_m}]

\* calls of the tracking specification
TrackDrafts == {Draft(u_ok, a_m, root)}
TrackPatches == [isFavorite : {TRUE, FALSE}]

\* the tag inputs of the tag specification: arrays and comma-separated
\* strings, unsorted, repeated, padded, empty, upper case, too long
t_a == <<"a">>
t_b == <<"b">>
t_B == <<"B">>
t_asp == <<" ", "a">>
t_ab == <<"a", ",", "b">>         \* "a,b" as one entry of an array
t_long == [i \in 1..(MaxTagLen + 1) |-> "a"]
One(item) == [kind |-> "one", item |-> item]
TagInputs ==
  {Arr(<<>>), Arr(<<t_b, t_a>>), Arr(<<t_a, t_asp>>), Arr(<<t_B>>), Arr(<<t_long>>),
   Csv(<<"b", ",", "a">>), Csv(<<"a", ",", ",", "a", " ">>), Csv(<<" ">>)}
TagDrafts == {[url |-> u_ok, alias |-> a, folder |-> root, tags |-> t] :
                a \in {a_m, a_n}, t \in TagInputs}
TagPatches == [tags : TagInputs]
AddTagsData == {Arr(<<t_b, t_a>>), One(t_a), One(t_B), One(t_ab)}
RemoveTagData == {One(t_a), One(t_b)}

\* the tag lists of the validation specification: the first k of the tags
\* "00", "01", ..., newest first, as an array, as an array with a repeated or
\* an upper-case entry at its end, and as a comma-separated string
DigitSeq == <<"0", "1", "2", "3", "4", "5", "6", "7", "8", "9">>
tagNo(i) == <<DigitSeq[((i - 1) \div 10) + 1], DigitSeq[((i - 1) % 10) + 1]>>
tagsDown(k) == [i \in 1..k |-> tagNo(k + 1 - i)]
RECURSIVE joinComma(_)
joinComma(list) ==
  IF list = <<>> THEN <<>>
  ELSE IF Len(list) = 1 THEN list[1]
  ELSE list[1] \o <<",", " ">> \o joinComma(Tail(list))
TagLists ==
  UNION {{Arr(tagsDown(k)), Arr(Append(tagsDown(k), tagNo(1))),
          Arr(Append(tagsDown(k), t_B))} : k \in 0..MaxTagList}
  \cup {Csv(joinComma(tagsDown(k))) : k \in 0..MaxCsvList}

\* calls of the interleaving specification
RaceDrafts == {Draft(u_ok, a_m, f_w), Draft(u_ok, a_m, f_Wsp), Draft(u_ok, a_n, f_w)}
RacePatches == [alias : {a_m, a_n}]

\* calls of the app store specification
AppDrafts == {Draft(u_ok, a_m, root)}
AppPatches == {[alias |-> a_n], [tags |-> Csv(<<"b", ",", "a">>)]}

\* the list lengths asked of the most-accessed views
Limits == {1, 2}

\* the candidate records and the queries of the search specification
a_x == <<"x">>
a_y == <<"y">>
a_mx == <<"m", "x">>
f_m == <<"m">>
u_m == <<"h","t","t","p",":","m">>
q_m == <<"m">>
q_Msp == <<" ", "M", " ">>        \* " M " : the query m after trim and lower-casing
q_wm == <<"w", "/", "m">>
q_blank == <<" ">>
q_mslash == <<"m", "/">>          \* folder-listing query
q_mm == <<"m", "/", "m">>         \* folder-scoped query
f_mw == <<"m", "w">>

Candidate(alias, folder, tags, url) ==
  [url |-> url, alias |-> alias, folder |-> folder, tags |-> Arr(tags),
   createdAt |-> Iso(0), updatedAt |-> Iso(0), lastAccessed |-> Null,
   accessCount |-> 0, isFavorite |-> FALSE]

\* for the query m: two exact matches, a partial alias match, a match on the
\* folder only, a tag match, a URL match
Candidates ==
  <<Candidate(a_m, root, <<>>, u_ok),
    Candidate(a_m, f_w, <<>>, u_ok),
    Candidate(a_mx, root, <<>>, u_ok),
    Candidate(a_x, f_m, <<>>, u_ok),
    Candidate(a_y, root, <<a_m>>, u_ok),
    Candidate(a_x, root, <<>>, u_m),
    Candidate(a_mx, f_m, <<>>, u_ok),
    Candidate(a_m, f_mw, <<>>, u_ok)>>

Queries == {q_m, q_Msp, q_wm, q_blank, <<>>, q_mslash, q_mm}

\* the store and the texts of the query specification
QueryStore == [i \in {1, 2} |-> spread(Candidates[IF i = 1 THEN 1 ELSE 4], [id |-> i])]
QueryTexts == {q_m, a_x, q_blank}

\* the cache of a session that has searched 49 texts on an empty store, and
\* the texts of the cache specification
FillerLetters == <<"a", "b", "c", "d", "e", "f", "g">>
FilledCache ==
  [i \in 1..(CacheCapacity - 1) |->
     [key |-> <<FillerLetters[((i - 1) \div 7) + 1], FillerLetters[((i - 1) % 7) + 1]>>,
      results |-> <<>>]]
q_7 == <<"7">>
q_10 == <<"1", "0">>
q_aa == <<"a", "a">>
CacheTexts == {q_m, q_7, q_10, q_aa, q_blank}
CacheDrafts == {Draft(u_ok, a_m, root)}

Call(op, arg, res, ret) == [op |-> op, arg |-> arg, res |-> res, ret |-> ret]

----------------------------------------------------------------------------
(* The state machine: one action per exported operation *)

\* the shortcut slice as created, and no service call in progress
DataInit ==
  /\ appShortcuts = <<>>
  /\ calls = <<>>
  /\ recorded = [id \in Ids |-> 0]

\* the hooks as mounted and the search slice as created
HookInit ==
  /\ loadedShortcuts = <<>>
  /\ searchQuery = <<>>
  /\ searchResults = <<>>
  /\ timers = {}
  /\ debounceTimerRef = NullId
  /\ resultsCache = <<>>
  /\ inFlight = <<>>
  /\ burst = [texts |-> <<>>, evaluated |-> <<>>]

Init ==
  /\ shortcuts = <<>>
  /\ folders = {}
  /\ last = Call("init", <<>>, "ok", 0)
  /\ searchResult = <<>>
  /\ now = 0
  /\ HookInit
  /\ DataInit

\* uuidv4() yields an id no stored record has; a rejected create draws none
CreateShortcut(data) ==
  \E uuid \in Ids :
    \E r \in {createShortcut(shortcuts, data, uuid)} :
    /\ r.res = "ok" => uuid \notin DOMAIN shortcuts
    /\ shortcuts' = r.store
    /\ last' = Call("createShortcut", <<data>>, r.res, r.ret)
    /\ UNCHANGED <<folders, searchResult, now, hookVars, dataVars>>

UpdateShortcut(id, updates) ==
  \E r \in {updateShortcut(shortcuts, id, updates)} :
  /\ shortcuts' = r.store
  /\ last' = Call("updateShortcut", <<id, updates>>, r.res, r.ret)
  /\ UNCHANGED <<folders, searchResult, now, hookVars, dataVars>>

DeleteShortcut(id) ==
  \E r \in {deleteShortcut(shortcuts, id)} :
  /\ shortcuts' = r.store
  /\ last' = Call("deleteShortcut", <<id>>, r.res, r.ret)
  /\ UNCHANGED <<folders, searchResult, now, hookVars, dataVars>>

TrackShortcutAccess(id) ==
  \E r \in {trackShortcutAccess(shortcuts, id)} :
  /\ id \in DOMAIN shortcuts => shortcuts[id].accessCount < MaxAccess
  /\ shortcuts' = r.store
  /\ last' = Call("trackShortcutAccess", <<id>>, r.res, r.ret)
  /\ UNCHANGED <<folders, searchResult, now, hookVars, dataVars>>

IncrementAccessCount(id) ==
  \E r \in {incrementAccessCount(shortcuts, id)} :
  /\ id \in DOMAIN shortcuts => shortcuts[id].accessCount < MaxAccess
  /\ shortcuts' = r.store
  /\ last' = Call("incrementAccessCount", <<id>>, r.res, r.ret)
  /\ UNCHANGED <<folders, searchResult, now, hookVars, dataVars>>

RenameFolder(oldName, newName) ==
  \E r \in {renameFolder(shortcuts, oldName, newName)} :
  /\ shortcuts' = r.store
  /\ last' = Call("renameFolder", <<oldName, newName>>, r.res, r.ret)
  /\ UNCHANGED <<folders, searchResult, now, hookVars, dataVars>>

BulkOperation(ids, operation, operationData) ==
  \E r \in {bulkOperation(shortcuts, ids, operation, operationData)} :
  /\ shortcuts' = r.store
  /\ last' = Call("bulkOperation", <<ids, operation, operationData>>, r.res, r.ret)
  /\ UNCHANGED <<folders, searchResult, now, hookVars, dataVars>>

CreateFolder(name) ==
  \E r \in {createFolder(folders, name)} :
  /\ folders' = r.folders
  /\ last' = Call("createFolder", <<name>>, r.res, 0)
  /\ UNCHANGED <<shortcuts, searchResult, now, hookVars, dataVars>>

GetOrCreateFolder(name) ==
  \E r \in {getOrCreateFolder(folders, name)} :
  /\ folders' = r.folders
  /\ last' = Call("getOrCreateFolder", <<name>>, r.res, 0)
  /\ UNCHANGED <<shortcuts, searchResult, now, hookVars, dataVars>>

FsRenameFolder(oldName, newName) ==
  \E r \in {fsRenameFolder(shortcuts, folders, oldName, newName)} :
  /\ shortcuts' = r.store
  /\ folders' = r.folders
  /\ last' = Call("folderService.renameFolder", <<oldName, newName>>, r.res, r.ret)
  /\ UNCHANGED <<searchResult, now, hookVars, dataVars>>

DeleteFolder(name) ==
  \E r \in {deleteFolder(shortcuts, folders, name)} :
  /\ folders' = r.folders
  /\ last' = Call("deleteFolder", <<name>>, r.res, 0)
  /\ UNCHANGED <<shortcuts, searchResult, now, hookVars, dataVars>>

CleanupEmptyFolders ==
  \E r \in {cleanupEmptyFolders(shortcuts, folders)} :
  /\ folders' = r.folders
  /\ last' = Call("cleanupEmptyFolders", <<>>, r.res, r.ret)
  /\ UNCHANGED <<shortcuts, searchResult, now, hookVars, dataVars>>

\* useRecentShortcuts: loadShortcuts, run when the hook mounts
LoadShortcuts ==
  /\ loadedShortcuts' = getAllShortcuts(shortcuts)
  /\ last' = Call("loadShortcuts", <<>>, "ok", 0)
  /\ UNCHANGED <<shortcuts, folders, searchResult, now, searchQuery, searchResults,
                 timers, debounceTimerRef, resultsCache, inFlight, burst, dataVars>>

\* useRecentShortcuts: trackAccess(shortcutId), autoUpdate = true
TrackAccess(shortcutId) ==
  \E r \in {trackAccess(shortcuts, loadedShortcuts, shortcutId)} :
    /\ \A i \in 1..Len(loadedShortcuts) :
         loadedShortcuts[i].id = shortcutId => loadedShortcuts[i].accessCount < MaxAccess
    /\ shortcuts' = r.store
    /\ loadedShortcuts' = r.loaded
    /\ last' = Call("trackAccess", <<shortcutId>>, r.res, 0)
    /\ UNCHANGED <<folders, searchResult, now, searchQuery, searchResults,
                   timers, debounceTimerRef, resultsCache, inFlight, burst, dataVars>>

\* time passes
Tick ==
  /\ now < MaxTime
  /\ now' = now + 1
  /\ last' = Call("tick", <<>>, "ok", 0)
  /\ UNCHANGED <<shortcuts, folders, searchResult, hookVars, dataVars>>

\* Namespace specification: create, update, delete
Next ==
  \/ \E data \in Drafts : CreateShortcut(data)
  \/ \E id \in Ids, updates \in Patches : UpdateShortcut(id, updates)
  \/ \E id \in Ids : DeleteShortcut(id)

Spec == Init /\ [][Next]_vars

\* Rename specification: folders of shortcuts renamed and shortcuts moved in bulk
RenameNext ==
  \/ \E data \in RenameDrafts : CreateShortcut(data)
  \/ \E id \in Ids : DeleteShortcut(id)
  \/ \E o, n \in RenameNames : RenameFolder(o, n)
  \/ \E ids \in BulkIdLists, f \in {f_w, f_t} : BulkOperation(ids, "moveToFolder", f)

RenameSpec == Init /\ [][RenameNext]_vars

\* Folder specification: the folder records next to the shortcuts
FolderNext ==
  \/ \E data \in FolderDrafts : CreateShortcut(data)
  \/ \E id \in Ids : DeleteShortcut(id)
  \/ \E name \in FolderNames : CreateFolder(name)
  \/ \E name \in FolderNames : GetOrCreateFolder(name)
  \/ \E o, n \in FolderNames : FsRenameFolder(o, n)
  \/ \E o, n \in FolderNames : RenameFolder(o, n)
  \/ \E name \in FolderNames : DeleteFolder(name)
  \/ CleanupEmptyFolders

FolderSpec == Init /\ [][FolderNext]_vars

\* Access specification: the operations addressed by shortcut id
AccessNext ==
  \/ \E data \in AccessDrafts : CreateShortcut(data)
  \/ \E id \in Ids, updates \in AccessPatches : UpdateShortcut(id, updates)
  \/ \E id \in Ids : DeleteShortcut(id)
  \/ \E id \in Ids : TrackShortcutAccess(id)
  \/ \E id \in Ids : IncrementAccessCount(id)

AccessSpec == Init /\ [][AccessNext]_vars

\* Tracking specification: one shortcut, the clock, and the writers of its
\* access fields, the hook of the recent list among them
TrackNext ==
  \/ \E data \in TrackDrafts : CreateShortcut(data)
  \/ \E id \in Ids, updates \in TrackPatches : UpdateShortcut(id, updates)
  \/ \E id \in Ids : TrackShortcutAccess(id)
  \/ \E id \in Ids : IncrementAccessCount(id)
  \/ LoadShortcuts
  \/ \E id \in Ids : TrackAccess(id)
  \/ Tick

TrackSpec == Init /\ [][TrackNext]_vars

\* Frequency specification: two shortcuts, the clock, the recorders of an
\* access and the two most-accessed views
GetFrequentShortcuts(limit) ==
  /\ searchResult' = getFrequentShortcuts(shortcuts, limit)
  /\ last' = Call("getFrequentShortcuts", <<limit>>, "ok", 0)
  /\ UNCHANGED <<shortcuts, folders, now, hookVars, dataVars>>

\* the omnibox handler lists the favorites of the synced list for a blank text
GetFavorites(limit) ==
  /\ searchResult' = getFavorites(getAllShortcuts(shortcuts), limit)
  /\ last' = Call("getFavorites", <<limit>>, "ok", 0)
  /\ UNCHANGED <<shortcuts, folders, now, hookVars, dataVars>>

FrequentNext ==
  \/ \E data \in AccessDrafts : CreateShortcut(data)
  \/ \E id \in Ids : TrackShortcutAccess(id)
  \/ \E id \in Ids : IncrementAccessCount(id)
  \/ \E limit \in Limits : GetFrequentShortcuts(limit)
  \/ \E limit \in Limits : GetFavorites(limit)
  \/ Tick

FrequentSpec == Init /\ [][FrequentNext]_vars

\* Tag specification: the writers of the tags of a shortcut
TagNext ==
  \/ \E data \in TagDrafts : CreateShortcut(data)
  \/ \E id \in Ids, updates \in TagPatches : UpdateShortcut(id, updates)
  \/ \E ids \in BulkIdLists, d \in AddTagsData : BulkOperation(ids, "addTags", d)
  \/ \E ids \in BulkIdLists, d \in RemoveTagData : BulkOperation(ids, "removeTag", d)

TagSpec == Init /\ [][TagNext]_vars

\* Validation specification: validateTags applied to tag lists of every length
ValidateTags(tags) ==
  \E validation \in {validateTags(tags)} :
    /\ last' = Call("validateTags", <<tags>>,
                    IF validation.valid THEN "ok" ELSE validation.error, validation.tags)
    /\ UNCHANGED <<shortcuts, folders, searchResult, now, hookVars, dataVars>>

ValidateNext == \E tags \in TagLists : ValidateTags(tags)

ValidateSpec == Init /\ [][ValidateNext]_vars

\* Interleaving specification: createShortcut and updateShortcut calls that
\* run await by await, with the steps of other calls in between
CreateStart(data) ==
  \E r \in {createStart(data)} :
    /\ Len(calls) < MaxCalls
    /\ calls' = IF r.call = Null THEN calls ELSE Append(calls, r.call)
    /\ last' = Call(IF r.call = Null THEN "createShortcut" ELSE "createShortcut starts",
                    <<data>>, r.res, r.ret)
    /\ UNCHANGED <<shortcuts, folders, searchResult, now, hookVars, appShortcuts, recorded>>

\* the step of the i-th call in progress: the store, the calls and the last
\* call that returned or threw
Resume(i, r) ==
  /\ shortcuts' = r.store
  /\ calls' = proceed(calls, i, r.call)
  /\ last' = Call(IF r.call = Null THEN calls[i].op ELSE "step",
                  <<calls[i].id, calls[i].data>>, r.res, r.ret)
  /\ UNCHANGED <<folders, searchResult, now, hookVars, appShortcuts>>

CreateChecked(i) ==
  /\ i \in 1..Len(calls)
  /\ calls[i].op = "createShortcut" /\ calls[i].pc = "check"
  /\ \E uuid \in Ids :
       \E r \in {createChecked(shortcuts, calls[i], uuid)} :
         /\ r.call # Null =>
              /\ uuid \notin DOMAIN shortcuts
              /\ \A j \in 1..Len(calls) : calls[j].rec # Null => calls[j].rec.id # uuid
         /\ Resume(i, r)
         /\ UNCHANGED recorded

CreateAdd(i) ==
  /\ i \in 1..Len(calls)
  /\ calls[i].op = "createShortcut" /\ calls[i].pc = "write"
  /\ Resume(i, createAdd(shortcuts, calls[i]))
  /\ UNCHANGED recorded

\* the functions that write through updateShortcut, and those that record
\* an access
UpdateCallers == {"updateShortcut", "incrementAccessCount"}
Recorders == {"incrementAccessCount", "trackShortcutAccess"}

UpdateStart(id, updates) ==
  /\ Len(calls) < MaxCalls
  /\ calls' = Append(calls, updateStart("updateShortcut", id, updates).call)
  /\ last' = Call("updateShortcut starts", <<id, updates>>, "pending", NullId)
  /\ UNCHANGED <<shortcuts, folders, searchResult, now, hookVars, appShortcuts, recorded>>

UpdateGot(i) ==
  /\ i \in 1..Len(calls)
  /\ calls[i].op \in UpdateCallers /\ calls[i].pc = "get"
  /\ \E r \in {updateGot(shortcuts, calls[i])} : Resume(i, r)
  /\ UNCHANGED recorded

UpdateChecked(i) ==
  /\ i \in 1..Len(calls)
  /\ calls[i].op \in UpdateCallers /\ calls[i].pc = "check"
  /\ \E r \in {updateChecked(shortcuts, calls[i])} : Resume(i, r)
  /\ UNCHANGED recorded

UpdatePut(i) ==
  /\ i \in 1..Len(calls)
  /\ calls[i].op \in UpdateCallers /\ calls[i].pc = "write"
  /\ Resume(i, updatePut(shortcuts, calls[i]))
  /\ recorded' = IF calls[i].op \in Recorders
                    THEN [recorded EXCEPT ![calls[i].id] = @ + 1]
                    ELSE recorded

RaceNext ==
  \/ \E data \in RaceDrafts : CreateStart(data)
  \/ \E id \in Ids, updates \in RacePatches : UpdateStart(id, updates)
  \/ \E i \in 1..MaxCalls : CreateChecked(i)
  \/ \E i \in 1..MaxCalls : CreateAdd(i)
  \/ \E i \in 1..MaxCalls : UpdateGot(i)
  \/ \E i \in 1..MaxCalls : UpdateChecked(i)
  \/ \E i \in 1..MaxCalls : UpdatePut(i)

RaceSpec == Init /\ [][RaceNext]_vars

\* Counting specification: access recordings of one shortcut that run await
\* by await; recorded counts the recordings that have completed
recordingsOf(id) ==
  recorded[id] + Cardinality({i \in 1..Len(calls) : calls[i].op \in Recorders /\ calls[i].id = id})

IncrementStart(id) ==
  /\ Len(calls) < MaxCalls
  /\ recordingsOf(id) < MaxAccess
  /\ calls' = Append(calls, incrementStart(id).call)
  /\ last' = Call("incrementAccessCount starts", <<id>>, "pending", NullId)
  /\ UNCHANGED <<shortcuts, folders, searchResult, now, hookVars, appShortcuts, recorded>>

IncrementRead(i) ==
  /\ i \in 1..Len(calls)
  /\ calls[i].op = "incrementAccessCount" /\ calls[i].pc = "read"
  /\ \E r \in {incrementRead(shortcuts, calls[i])} : Resume(i, r)
  /\ UNCHANGED recorded

TrackStart(shortcutId) ==
  /\ Len(calls) < MaxCalls
  /\ recordingsOf(shortcutId) < MaxAccess
  /\ calls' = Append(calls, trackStart(shortcutId).call)
  /\ last' = Call("trackShortcutAccess starts", <<shortcutId>>, "pending", NullId)
  /\ UNCHANGED <<shortcuts, folders, searchResult, now, hookVars, appShortcuts, recorded>>

TrackTransaction(i) ==
  /\ i \in 1..Len(calls)
  /\ calls[i].op = "trackShortcutAccess" /\ calls[i].pc = "transaction"
  /\ \E r \in {trackTransaction(shortcuts, calls[i])} :
       /\ Resume(i, r)
       /\ recorded' = IF r.res = "ok" THEN [recorded EXCEPT ![calls[i].id] = @ + 1]
                      ELSE recorded

CountNext ==
  \/ \E data \in TrackDrafts : CreateShortcut(data)
  \/ \E id \in Ids : IncrementStart(id)
  \/ \E i \in 1..MaxCalls : IncrementRead(i)
  \/ \E id \in Ids : TrackStart(id)
  \/ \E i \in 1..MaxCalls : TrackTransaction(i)
  \/ \E i \in 1..MaxCalls : UpdateGot(i)
  \/ \E i \in 1..MaxCalls : UpdatePut(i)

CountSpec == Init /\ [][CountNext]_vars

\* App store specification: the operations of useShortcutsData, each on the
\* record store and on the shortcuts slice
HookCall(op, arg, r) ==
  /\ shortcuts' = r.store
  /\ appShortcuts' = r.app
  /\ last' = Call(op, arg, r.res, 0)
  /\ UNCHANGED <<folders, searchResult, now, hookVars, calls, recorded>>

HookLoadShortcuts ==
  HookCall("useShortcutsData.loadShortcuts", <<>>, hookLoadShortcuts(shortcuts, appShortcuts))

HookCreateShortcut(data) ==
  \E uuid \in Ids :
    \E r \in {hookCreateShortcut(shortcuts, appShortcuts, data, uuid)} :
      /\ r.res = "ok" => uuid \notin DOMAIN shortcuts
      /\ HookCall("useShortcutsData.createShortcut", <<data>>, r)

HookUpdateShortcut(id, updates) ==
  \E r \in {hookUpdateShortcut(shortcuts, appShortcuts, id, updates)} :
    HookCall("useShortcutsData.updateShortcut", <<id, updates>>, r)

HookDeleteShortcut(id) ==
  \E r \in {hookDeleteShortcut(shortcuts, appShortcuts, id)} :
    HookCall("useShortcutsData.deleteShortcut", <<id>>, r)

RecordAccess(id) ==
  \E r \in {recordAccess(shortcuts, appShortcuts, id)} :
    /\ id \in DOMAIN shortcuts => shortcuts[id].accessCount < MaxAccess
    /\ HookCall("useShortcutsData.recordAccess", <<id>>, r)

AppNext ==
  \/ HookLoadShortcuts
  \/ \E data \in AppDrafts : HookCreateShortcut(data)
  \/ \E id \in Ids, updates \in AppPatches : HookUpdateShortcut(id, updates)
  \/ \E id \in Ids : HookDeleteShortcut(id)
  \/ \E id \in Ids : RecordAccess(id)
  \/ Tick

AppSpec == Init /\ [][AppNext]_vars

\* Search specification: the stores creates can build, under any assignment of
\* ids, and the two search entry points applied to them
SearchInit ==
  /\ \E D \in SUBSET Ids :
       \E pick \in [D -> 1..Len(Candidates)] :
         /\ \A i, j \in D : i # j => pick[i] # pick[j]
         /\ shortcuts = [i \in D |-> spread(Candidates[pick[i]], [id |-> i])]
  /\ folders = {}
  /\ last = Call("init", <<>>, "ok", 0)
  /\ searchResult = <<>>
  /\ now = 0
  /\ HookInit
  /\ DataInit

SearchShortcuts(query) ==
  /\ searchResult' = searchShortcuts(shortcuts, query)
  /\ last' = Call("searchShortcuts", <<query>>, "ok", 0)
  /\ UNCHANGED <<shortcuts, folders, now, hookVars, dataVars>>

\* the omnibox handlers search only a text that is not blank
OmniboxSearch(text) ==
  /\ trim(text) # <<>>
  /\ searchResult' = omniboxSearch(getAllShortcuts(shortcuts), text)
  /\ last' = Call("omniboxSearch", <<text>>, "ok", 0)
  /\ UNCHANGED <<shortcuts, folders, now, hookVars, dataVars>>

\* the debounced item list of useDebouncedSearch over the loaded shortcuts
FilteredItems(debouncedQuery) ==
  /\ searchResult' = filteredItems(getAllShortcuts(shortcuts), debouncedQuery)
  /\ last' = Call("filteredItems", <<debouncedQuery>>, "ok", 0)
  /\ UNCHANGED <<shortcuts, folders, now, hookVars, dataVars>>

SearchNext ==
  \/ \E query \in Queries : SearchShortcuts(query)
  \/ \E text \in Queries : OmniboxSearch(text)
  \/ \E debouncedQuery \in Queries : FilteredItems(debouncedQuery)

SearchSpec == SearchInit /\ [][SearchNext]_vars

----------------------------------------------------------------------------
(* The query controller: useSearchData over the app store's search slice *)

\* the synchronous part of performSearch(query)
PerformSearchStart(query) ==
  \E p \in {performSearch(resultsCache, query)} :
    /\ p.res = "miss" => Len(inFlight) < MaxInFlight
    /\ searchResults' = IF p.res = "miss" THEN searchResults ELSE p.results
    /\ inFlight' = IF p.res = "miss" THEN Append(inFlight, query) ELSE inFlight
    /\ UNCHANGED <<resultsCache, shortcuts, folders, searchResult, now, loadedShortcuts, dataVars>>

\* performSearch called by the component
PerformSearch(query) ==
  /\ PerformSearchStart(query)
  /\ last' = Call("performSearch", <<query>>, performSearch(resultsCache, query).res, 0)
  /\ UNCHANGED <<searchQuery, timers, debounceTimerRef, burst>>

\* shortcutService.searchShortcuts resolves for the i-th waiting performSearch,
\* which stores and displays the results
ResolveSearch(i) ==
  /\ i \in 1..Len(inFlight)
  /\ \E results \in {searchShortcuts(shortcuts, inFlight[i])} :
       /\ resultsCache' = cacheResults(resultsCache, inFlight[i], results)
       /\ searchResults' = results
  /\ inFlight' = [j \in 1..(Len(inFlight) - 1) |->
                    IF j < i THEN inFlight[j] ELSE inFlight[j + 1]]
  /\ last' = Call("resolveSearch", <<inFlight[i]>>, "ok", 0)
  /\ UNCHANGED <<shortcuts, folders, searchResult, now, loadedShortcuts,
                 searchQuery, timers, debounceTimerRef, burst, dataVars>>

HandleSearch(query) ==
  \E h \in {handleSearch(timers, debounceTimerRef, query)} :
    /\ Cardinality(h.timers) <= MaxTimers
    /\ (burst.texts # <<>> /\ burst.evaluated = <<>>) => Len(burst.texts) < MaxBurst
    /\ searchQuery' = query
    /\ timers' = h.timers
    /\ debounceTimerRef' = h.ref
    /\ burst' = IF burst.texts # <<>> /\ burst.evaluated = <<>>
                   THEN [burst EXCEPT !.texts = Append(burst.texts, query)]
                   ELSE [texts |-> <<query>>, evaluated |-> <<>>]
    /\ last' = Call("handleSearch", <<query>>, "ok", 0)
    /\ UNCHANGED <<shortcuts, folders, searchResult, now, loadedShortcuts,
                   searchResults, resultsCache, inFlight, dataVars>>

\* the quiet window of a pending timeout has elapsed: its callback runs
TimerFired ==
  \E t \in timers :
    /\ PerformSearchStart(t.query)
    /\ timers' = timers \ {t}
    /\ burst' = [burst EXCEPT !.evaluated = Append(burst.evaluated, t.query)]
    /\ last' = Call("timer", <<t.query>>, performSearch(resultsCache, t.query).res, 0)
    /\ UNCHANGED <<searchQuery, debounceTimerRef>>

\* clearSearch of the app store, which useSearchData hands out as it is
ClearSearch ==
  /\ searchQuery' = <<>>
  /\ searchResults' = <<>>
  /\ last' = Call("clearSearch", <<>>, "ok", 0)
  /\ UNCHANGED <<shortcuts, folders, searchResult, now, loadedShortcuts,
                 timers, debounceTimerRef, resultsCache, inFlight, burst, dataVars>>

ClearCache ==
  /\ resultsCache' = <<>>
  /\ last' = Call("clearCache", <<>>, "ok", 0)
  /\ UNCHANGED <<shortcuts, folders, searchResult, now, loadedShortcuts,
                 searchQuery, searchResults, timers, debounceTimerRef, inFlight, burst, dataVars>>

\* Query specification: typing, the debounce timeouts, the searches in
\* flight and clearSearch, over a store that does not change
QueryInit ==
  /\ shortcuts = QueryStore
  /\ folders = {}
  /\ last = Call("init", <<>>, "ok", 0)
  /\ searchResult = <<>>
  /\ now = 0
  /\ HookInit
  /\ DataInit

QueryNext ==
  \/ \E query \in QueryTexts : HandleSearch(query)
  \/ TimerFired
  \/ \E i \in 1..MaxInFlight : ResolveSearch(i)
  \/ ClearSearch

QuerySpec == QueryInit /\ [][QueryNext]_vars

\* Cache specification: performSearch and its cache while shortcuts are
\* created and deleted, from a cache one entry short of its capacity
CacheInit ==
  /\ shortcuts = <<>>
  /\ folders = {}
  /\ last = Call("init", <<>>, "ok", 0)
  /\ searchResult = <<>>
  /\ now = 0
  /\ loadedShortcuts = <<>>
  /\ searchQuery = <<>>
  /\ searchResults = <<>>
  /\ timers = {}
  /\ debounceTimerRef = NullId
  /\ resultsCache = FilledCache
  /\ inFlight = <<>>
  /\ burst = [texts |-> <<>>, evaluated |-> <<>>]
  /\ DataInit

CacheNext ==
  \/ \E query \in CacheTexts : PerformSearch(query)
  \/ \E i \in 1..MaxInFlight : ResolveSearch(i)
  \/ \E data \in CacheDrafts : CreateShortcut(data)
  \/ \E id \in Ids : DeleteShortcut(id)
  \/ ClearCache

CacheSpec == CacheInit /\ [][CacheNext]_vars

----------------------------------------------------------------------------
(* Properties *)

\* some live shortcut other than `except` holds the key (folder, alias)
keyHeld(S, folder, alias, except) ==
  \E i \in DOMAIN S \ {except} : sameKey(S[i], folder, alias)

\* some live shortcut is in the folder, compared as getShortcutsByFolder compares
referenced(S, name) ==
  \E i \in DOMAIN S : caseInsensitiveEqual(S[i].folder, name)

\* C1: no two distinct live shortcuts have (folder, alias) pairs that are equal
\* after trim and lower-casing.
C1_UniqueKeys ==
  \A i, j \in DOMAIN shortcuts :
    i # j => ~ sameKey(shortcuts[i], shortcuts[j].folder, shortcuts[j].alias)

\* C2: when renameFolder(a, b) fails on an alias collision, every shortcut that
\* was in folder a before the call is still stored with the folder it had.
C2_AtomicRename ==
  [][(last'.op = "renameFolder" /\ last'.res = "RenameConflict") =>
       \A id \in DOMAIN shortcuts :
         caseInsensitiveEqual(shortcuts[id].folder, last'.arg[1]) =>
           /\ id \in DOMAIN shortcuts'
           /\ shortcuts'[id].folder = shortcuts[id].folder]_vars

\* C3: renameFolder(x, y) with x and y equal after trim and lower-casing
\* succeeds for any name and changes no shortcut record and no folder record,
\* in shortcutService and in folderService.
C3_NoOpRename ==
  [][(/\ last'.op \in {"renameFolder", "folderService.renameFolder"}
      /\ caseInsensitiveEqual(last'.arg[1], last'.arg[2])) =>
       (last'.res = "ok" /\ shortcuts' = shortcuts /\ folders' = folders)]_vars

\* C4: createShortcut of a field-valid draft fails with the duplicate-alias
\* error exactly when a live shortcut holds the draft's key; then the store is
\* unchanged, and otherwise exactly one record is added, under a fresh id,
\* carrying the draft's key.
C4_CreateContract ==
  [][(last'.op = "createShortcut" /\ validateShortcut(last'.arg[1]).valid) =>
       LET data == last'.arg[1]
           held == keyHeld(shortcuts, data.folder, data.alias, NullId)
       IN /\ (last'.res = "AliasExists") <=> held
          /\ held => shortcuts' = shortcuts
          /\ ~ held =>
               /\ last'.res = "ok"
               /\ \E id \in Ids \ DOMAIN shortcuts :
                    /\ DOMAIN shortcuts' = DOMAIN shortcuts \cup {id}
                    /\ sameKey(shortcuts'[id], data.folder, data.alias)
                    /\ \A i \in DOMAIN shortcuts : shortcuts'[i] = shortcuts[i]]_vars

\* a create was rejected as a duplicate while the same alias is stored both in
\* the root and in a folder
C4_Witness ==
  /\ last.op = "createShortcut"
  /\ last.res = "AliasExists"
  /\ \E i, j \in DOMAIN shortcuts :
       /\ shortcuts[i].alias = shortcuts[j].alias
       /\ shortcuts[i].folder = root
       /\ shortcuts[j].folder = f_w

\* the key a patch gives the record of id
patchedKeyChanges(S, id, updates) ==
  ~ sameKey(S[id], spread(S[id], updates).folder, spread(S[id], updates).alias)

C6_NotFound ==
  [][(/\ last'.op \in {"updateShortcut", "deleteShortcut",
                       "trackShortcutAccess", "incrementAccessCount"}
      /\ last'.arg[1] \notin DOMAIN shortcuts) =>
       (last'.res = "NotFound" /\ shortcuts' = shortcuts)]_vars

C8_Cleanup ==
  [][/\ last'.op = "cleanupEmptyFolders" =>
          /\ folders' = {f \in folders : referenced(shortcuts, f)}
          /\ last'.ret = Cardinality(folders \ folders')
          /\ shortcuts' = shortcuts
     /\ (last.op = "cleanupEmptyFolders" /\ last'.op = "cleanupEmptyFolders") =>
          (folders' = folders /\ last'.ret = 0)
     /\ last'.op = "deleteShortcut" => folders' = folders]_vars

\* a cleanup removed a record and kept a referenced one
C8_Witness ==
  /\ last.op = "cleanupEmptyFolders"
  /\ last.ret > 0
  /\ \E f \in folders : referenced(shortcuts, f)

\* a plain query: not blank and without the '/' of a folder-scoped query
plainQuery(query) == trim(query) # <<>> /\ ~ includes(query, <<"/">>)

\* the human-facing full alias: folder/alias, or the alias alone in the root
fullAliasOf(s) ==
  IF trim(s.folder) = <<>> THEN s.alias ELSE s.folder \o <<"/">> \o s.alias

\* the relevance tier of a shortcut for a plain query (0: no match)
tierOf(s, query) ==
  LET q == toLowerCase(trim(query))
      alias == toLowerCase(s.alias)
      folder == toLowerCase(s.folder)
      full == toLowerCase(fullAliasOf(s))
  IN IF alias = q \/ full = q THEN 1
     ELSE IF includes(alias, q) \/ includes(full, q) \/ includes(folder, q) THEN 2
     ELSE IF \E i \in 1..Len(s.tags.items) : includes(toLowerCase(s.tags.items[i]), q) THEN 3
     ELSE IF includes(toLowerCase(s.url), q) THEN 4
     ELSE 0

\* the list is free of repeats, every entry is in one of the four tiers, and
\* no entry of a lower tier precedes an entry of a higher one
tiered(result, query) ==
  /\ \A i, j \in 1..Len(result) : i # j => result[i].id # result[j].id
  /\ \A i \in 1..Len(result) : tierOf(result[i], query) \in 1..4
  /\ \A i, j \in 1..Len(result) :
       i < j => tierOf(result[i], query) <= tierOf(result[j], query)

\* C9: for a plain query every returned shortcut appears once, is in one of
\* the four tiers, and the tiers appear in the order 1, 2, 3, 4, in the
\* service search and in the omnibox search.
C9_TierOrder ==
  (last.op \in {"searchShortcuts", "omniboxSearch"} /\ plainQuery(last.arg[1]))
    => tiered(searchResult, last.arg[1])

\* C10: within each tier of a plain search the results are in ascending order
\* of the lower-cased full alias, whatever the key order of the store.
C10_AliasOrder ==
  (last.op = "searchShortcuts" /\ plainQuery(last.arg[1])) =>
    \A i, j \in 1..Len(searchResult) :
      (i < j /\ tierOf(searchResult[i], last.arg[1]) = tierOf(searchResult[j], last.arg[1]))
        => ~ strLess(toLowerCase(fullAliasOf(searchResult[j])),
                     toLowerCase(fullAliasOf(searchResult[i])))

\* the trimmed, lower-cased query, its part before the first '/' and the rest
scopedQuery(query) == splitSlash(toLowerCase(trim(query)))

\* a folder-listing query: one '/', at the end
folderListing(query) ==
  LET q == toLowerCase(trim(query))
  IN q # <<>> /\ indexOfChar(q, "/", 1) = Len(q)

\* a folder-scoped query: one '/', with an alias part after it
folderScoped(query) ==
  LET q == toLowerCase(trim(query))
  IN /\ indexOfChar(q, "/", 1) \in 1..(Len(q) - 1)
     /\ ~ includes(scopedQuery(query).aliasPart, <<"/">>)

\* C11: for a folder-listing query f/ the result holds exactly the shortcuts
\* whose lower-cased folder contains f, each once, in ascending order of
\* alias, from the service search and from the debounced item list.
C11_FolderListing ==
  (last.op \in {"searchShortcuts", "filteredItems"} /\ folderListing(last.arg[1])) =>
    /\ {searchResult[i].id : i \in 1..Len(searchResult)}
         = {id \in DOMAIN shortcuts :
              includes(toLowerCase(shortcuts[id].folder), scopedQuery(last.arg[1]).folderPart)}
    /\ \A i, j \in 1..Len(searchResult) : i # j => searchResult[i].id # searchResult[j].id
    /\ \A i, j \in 1..Len(searchResult) :
         i < j => ~ strLess(toLowerCase(searchResult[j].alias),
                            toLowerCase(searchResult[i].alias))

\* C12: for a folder-scoped query f/a every returned shortcut has a folder
\* containing f and an alias containing a, and no shortcut whose alias equals
\* a comes after one whose alias only starts with or contains a.
C12_ScopedRanking ==
  (last.op = "filteredItems" /\ folderScoped(last.arg[1])) =>
    /\ \A i \in 1..Len(searchResult) :
         /\ includes(toLowerCase(searchResult[i].folder), scopedQuery(last.arg[1]).folderPart)
         /\ includes(toLowerCase(searchResult[i].alias), scopedQuery(last.arg[1]).aliasPart)
    /\ \A i, j \in 1..Len(searchResult) :
         (i < j /\ toLowerCase(searchResult[j].alias) = scopedQuery(last.arg[1]).aliasPart)
           => toLowerCase(searchResult[i].alias) = scopedQuery(last.arg[1]).aliasPart

\* C13: an empty or whitespace-only query gives an empty list from
\* searchShortcuts, from the debounced item list and from performSearch.
C13_BlankQuery ==
  /\ (last.op \in {"searchShortcuts", "filteredItems"} /\ trim(last.arg[1]) = <<>>)
       => searchResult = <<>>
  /\ (last.op \in {"performSearch", "timer"} /\ trim(last.arg[1]) = <<>>)
       => searchResults = <<>>

C15_NewestWins ==
  (/\ inFlight = <<>>
   /\ timers = {}
   /\ burst.texts # <<>>
   /\ burst.evaluated = <<burst.texts[Len(burst.texts)]>>
   /\ searchQuery = burst.texts[Len(burst.texts)]
   /\ trim(searchQuery) # <<>>)
    => searchResults = searchShortcuts(shortcuts, searchQuery)

\* C16: a performSearch answered from the cache displays the ranking of the
\* current store contents.
C16_CacheFresh ==
  (last.op = "performSearch" /\ last.res = "hit")
    => searchResults = searchShortcuts(shortcuts, last.arg[1])

\* C17: the cache never holds more than CacheCapacity entries, and storing a
\* new key in a full cache removes the entry created first.
C17_OldestFirst ==
  [][/\ Len(resultsCache') <= CacheCapacity
     /\ (/\ last'.op = "resolveSearch"
         /\ Len(resultsCache) = CacheCapacity
         /\ cacheIndex(resultsCache, toLowerCase(trim(last'.arg[1]))) = 0)
          => resultsCache' = Append(Tail(resultsCache),
                                    [key |-> toLowerCase(trim(last'.arg[1])),
                                     results |-> searchResults'])]_vars

\* C18: right after clearSearch the query text and the results are empty,
\* and unless handleSearch is called next, no timeout set before the call
\* starts an evaluation and the text and the results stay empty.
C18_ClearCancels ==
  [][last.op = "clearSearch" =>
       /\ searchQuery = <<>>
       /\ searchResults = <<>>
       /\ last'.op # "handleSearch" =>
            (last'.op # "timer" /\ searchQuery' = <<>> /\ searchResults' = <<>>)]_vars

\* C19: a successful trackShortcutAccess or incrementAccessCount adds 1 to
\* the accessCount of the shortcut, sets its lastAccessed to the current
\* time, and changes no other field and no other shortcut.
C19_RecordAccessFrame ==
  [][(last'.op \in {"trackShortcutAccess", "incrementAccessCount"} /\ last'.res = "ok") =>
       shortcuts' = [shortcuts EXCEPT
                       ![last'.arg[1]].accessCount = @ + 1,
                       ![last'.arg[1]].lastAccessed = Millis(now)]]_vars

\* C20: the stored accessCount of a shortcut never decreases from a state to
\* the next while the shortcut exists.
C20_CountMonotone ==
  [][\A id \in DOMAIN shortcuts \cap DOMAIN shortcuts' :
       shortcuts'[id].accessCount >= shortcuts[id].accessCount]_vars

\* the time of the last access a record carries in either of its two fields
\* (-1: never accessed)
lastAccessTime(s) ==
  LET a == IF s.lastAccessed = Null THEN -1 ELSE s.lastAccessed.ms
      b == IF "lastAccessedAt" \in DOMAIN s THEN s.lastAccessedAt.iso ELSE -1
  IN IF a > b THEN a ELSE b

\* the order of the most-accessed view: higher count, then more recent
\* access, then full alias ascending
frequentBefore(a, b) ==
  \/ a.accessCount > b.accessCount
  \/ /\ a.accessCount = b.accessCount
     /\ \/ lastAccessTime(a) > lastAccessTime(b)
        \/ /\ lastAccessTime(a) = lastAccessTime(b)
           /\ strLess(fullAliasOf(a), fullAliasOf(b))

\* C21: getFrequentShortcuts(n) returns min(n, number of shortcuts) stored
\* shortcuts, none omitted has a higher accessCount than a returned one, and
\* the list is ordered by accessCount descending, then more recent last
\* access, then full alias ascending.
C21_TopFrequent ==
  last.op = "getFrequentShortcuts" =>
    LET n == last.arg[1]
        size == Cardinality(DOMAIN shortcuts)
        returned == {searchResult[i].id : i \in 1..Len(searchResult)}
    IN /\ Len(searchResult) = (IF n < size THEN n ELSE size)
       /\ \A i \in 1..Len(searchResult) :
            /\ searchResult[i].id \in DOMAIN shortcuts
            /\ searchResult[i] = shortcuts[searchResult[i].id]
       /\ \A i, j \in 1..Len(searchResult) :
            i < j => frequentBefore(searchResult[i], searchResult[j])
       /\ \A id \in DOMAIN shortcuts \ returned :
            \A i \in 1..Len(searchResult) :
              shortcuts[id].accessCount <= searchResult[i].accessCount

\* C22: the folder store never holds two records whose names are equal
\* after lower-casing.
C22_FolderNamesUnique ==
  \A f, g \in folders : toLowerCase(f) = toLowerCase(g) => f = g

\* C23: a successful renameFolder(old, new) with old and new not equal
\* case-insensitively gives every shortcut that was in old the folder new,
\* keeps its id and alias, leaves no shortcut in old, changes no shortcut
\* outside old, and returns the number of shortcuts that were in old.
C23_RenameSuccess ==
  [][(/\ last'.op = "renameFolder"
      /\ last'.res = "ok"
      /\ ~ caseInsensitiveEqual(last'.arg[1], last'.arg[2])) =>
       LET old == last'.arg[1]
           new == last'.arg[2]
           moved == {id \in DOMAIN shortcuts : caseInsensitiveEqual(shortcuts[id].folder, old)}
       IN /\ DOMAIN shortcuts' = DOMAIN shortcuts
          /\ \A id \in moved :
               /\ shortcuts'[id].folder = new
               /\ shortcuts'[id].id = id
               /\ shortcuts'[id].alias = shortcuts[id].alias
          /\ \A id \in DOMAIN shortcuts' :
               ~ caseInsensitiveEqual(shortcuts'[id].folder, old)
          /\ \A id \in DOMAIN shortcuts \ moved : shortcuts'[id] = shortcuts[id]
          /\ last'.ret = Cardinality(moved)]_vars

\* a rename has moved two shortcuts, addressed by a name in another letter
\* case than the stored folder
C23_Witness ==
  /\ last.op = "renameFolder"
  /\ last.res = "ok"
  /\ last.arg[1] = f_Wsp
  /\ last.ret = 2
  /\ \A id \in DOMAIN shortcuts : shortcuts[id].folder = last.arg[2]

\* a valid normalized tag: 1 to 20 characters, each a lower-case letter, a
\* digit or a hyphen
normalizedTag(t) ==
  /\ Len(t) \in 1..20
  /\ \A i \in 1..Len(t) : t[i] \in LowerLetters \cup Digits \cup {"-"}

\* a duplicate-free list of valid normalized tags in sorted order
canonicalTags(items) ==
  /\ \A i \in 1..Len(items) : normalizedTag(items[i])
  /\ \A i, j \in 1..Len(items) : i < j => strLess(items[i], items[j])

\* C24: the stored tags of every shortcut are a duplicate-free list of valid
\* normalized tags in sorted order.
C24_TagsCanonical ==
  \A id \in DOMAIN shortcuts :
    /\ shortcuts[id].tags.kind = "array"
    /\ canonicalTags(shortcuts[id].tags.items)

\* tags were written by an update and by a bulk addTags: two shortcuts carry
\* both tags
C24_Witness ==
  /\ last.op = "bulkOperation"
  /\ last.arg[2] = "addTags"
  /\ last.ret = <<2, 0>>
  /\ \E id \in DOMAIN shortcuts : shortcuts[id].tags.items = <<t_a, t_b>>

\* the entries of a tag input after splitting, trimming and dropping the
\* empty ones
entriesOf(tags) ==
  LET raw == IF tags.kind = "string" THEN splitComma(tags.text, <<>>) ELSE tags.items
  IN dropEmpty([i \in 1..Len(raw) |-> trim(raw[i])])

\* C25: validateTags accepts a tag input exactly when every entry is a valid
\* tag and there are at most 50 entries; it then returns the entries as a
\* sorted duplicate-free list, and when an entry of a list of at most 50 is
\* invalid it returns the error of the first invalid entry.
C25_TagCountLimit ==
  last.op = "validateTags" =>
    LET entries == entriesOf(last.arg[1])
        invalid == {i \in 1..Len(entries) : ~ normalizedTag(entries[i])}
        accept == Len(entries) <= 50 /\ invalid = {}
    IN /\ (last.res = "ok") <=> accept
       /\ accept =>
            /\ canonicalTags(last.ret)
            /\ {last.ret[i] : i \in 1..Len(last.ret)} = {entries[i] : i \in 1..Len(entries)}
       /\ (Len(entries) <= 50 /\ invalid # {}) =>
            last.res = validateTag(entries[CHOOSE i \in invalid : \A j \in invalid : i <= j]).error

\* C26: when createShortcut and updateShortcut calls interleave at their
\* awaits, a call that succeeds leaves no other live shortcut with the key of
\* the record it wrote.
C26_InterleavedUnique ==
  (last.op \in {"createShortcut", "updateShortcut"} /\ last.res = "ok") =>
    \A j \in DOMAIN shortcuts \ {last.ret} :
      ~ sameKey(shortcuts[j], shortcuts[last.ret].folder, shortcuts[last.ret].alias)

\* C27: a successful updateShortcut(id, patch), for any patch, leaves the set
\* of stored ids unchanged, stores the resulting record under id, and changes
\* no record stored under another id.
C27_IdImmutable ==
  [][(last'.op = "updateShortcut" /\ last'.res = "ok") =>
       LET id == last'.arg[1]
       IN /\ DOMAIN shortcuts' = DOMAIN shortcuts
          /\ shortcuts'[id].id = id
          /\ \A j \in DOMAIN shortcuts \ {id} : shortcuts'[j] = shortcuts[j]]_vars

\* C28: when the access recordings of a shortcut interleave at their awaits
\* and none is in progress any more, the stored accessCount is the number of
\* recordings that have completed (the count starts at 0).
C28_NoLostUpdate ==
  \A id \in DOMAIN shortcuts :
    (\A i \in 1..Len(calls) : ~ (calls[i].op \in Recorders /\ calls[i].id = id)) =>
      shortcuts[id].accessCount = recorded[id]

\* C29: after every successful createShortcut, updateShortcut,
\* deleteShortcut or recordAccess of useShortcutsData, the shortcuts slice and
\* the record store hold the same ids, and each shortcut of the slice has the
\* id, alias, folder, tags and updatedAt of the stored record.
C29_SliceRefinesStore ==
  (/\ last.op \in {"useShortcutsData.createShortcut", "useShortcutsData.updateShortcut",
                   "useShortcutsData.deleteShortcut", "useShortcutsData.recordAccess"}
   /\ last.res = "ok") =>
    /\ {appShortcuts[i].id : i \in 1..Len(appShortcuts)} = DOMAIN shortcuts
    /\ \A i \in 1..Len(appShortcuts) :
         LET inMemory == appShortcuts[i]
             stored == shortcuts[appShortcuts[i].id]
         IN /\ inMemory.alias = stored.alias
            /\ inMemory.folder = stored.folder
            /\ inMemory.tags = stored.tags
            /\ inMemory.updatedAt = stored.updatedAt

\* C30: after folderService.renameFolder(old, new) with old and new not
\* equal case-insensitively succeeds, the folder store holds a record named
\* new and no record whose name equals old case-insensitively; after it
\* fails, the folder store is as before the call.
C30_FolderRecordsFollow ==
  [][last'.op = "folderService.renameFolder" =>
       LET old == last'.arg[1]
           new == last'.arg[2]
       IN IF last'.res = "ok"
            THEN ~ caseInsensitiveEqual(old, new) =>
                   /\ trim(new) \in folders'
                   /\ \A f \in folders' : ~ caseInsensitiveEqual(f, old)
            ELSE folders' = folders]_vars

====
